---- MODULE Spec2Model ----
(***************************************************************************)
(* Sync-metadata engine of transferdb (package service): the MySQL meta    *)
(* tables wait_sync_meta / full_sync_meta, the ROWID chunk planner that    *)
(* drives Oracle's DBMS_PARALLEL_EXECUTE, and the full-sync workers that   *)
(* clear one chunk per transaction.                                        *)
(***************************************************************************)
EXTENDS Integers, Sequences, FiniteSets, TLC

\* ------------------------------------------------------------------ bounds
MaxChunks == 3      \* most ROWID chunks Oracle returns for one table
MaxBatch == 2       \* largest insert-batch-size
MaxSCN == 1         \* largest snapshot SCN (SCNs are 1..MaxSCN)
MaxRuns == 2        \* chunk-planner invocations in one behaviour
NumWorkers == 2     \* concurrent full-sync workers
MaxSyncChunks == 2  \* most chunks of the table the workers are followed on
MaxJudgeTables == 2 \* longest list given to JudgingCheckpointResume
MaxInitTables == 2  \* longest table list given to InitWaitSyncTableMetaRecord
MaxUnderflow == 1   \* decrements of full_split_times below zero that are followed
MaxTables == 3      \* longest exporterTableSlice given to GenOracleToMySQLTableList
MaxThreads == 2     \* largest configured thread count
BufferSize == 1     \* capacity of the channels chS and chT
MaxPrecision == 39  \* largest DATA_PRECISION of a NUMBER column
MaxRules == 2       \* most rules of one scope (column, table, schema)
MaxClauses == 3     \* most clauses of one check condition
MaxCheckKeys == 1   \* most check constraints of one table

\* ------------------------------------------------------------------- names
SchemaNames == {"s1"}
TableNames == {"t1", "T1", "t2"}
SyncModes == {"FULL", "ALL"}
WorkerIDs == {1}
Forms == {"orig", "upper"}

\* strings.ToUpper on the identifiers of the model
ToUpper(name) ==
  CASE name = "s1" -> "S1"
    [] name = "t1" -> "T1"
    [] name = "t2" -> "T2"
    [] name = "emp" -> "EMP"
    [] name = "off" -> "OFF"
    [] name = "price" -> "PRICE"
    [] name = "number" -> "NUMBER"
    [] name = "int" -> "INT"
    [] name = "decimal" -> "DECIMAL"
    [] name = "varchar" -> "VARCHAR"
    [] name = "double" -> "DOUBLE"
    [] name = "sysdate" -> "SYSDATE"
    [] name = "and" -> "AND"
    [] name = "or" -> "OR"
    [] name = "is" -> "IS"
    [] name = "not" -> "NOT"
    [] name = "null" -> "NULL"
    [] name = "ck_emp" -> "CK_EMP"
    [] name = "shard_row_id_bits = 2" -> "SHARD_ROW_ID_BITS = 2"
    [] OTHER -> name

UpperSchemas == {ToUpper(s) : s \in SchemaNames}
UpperTables == {ToUpper(t) : t \in TableNames}

\* A rowid_sql text is <<schema, table, chunk, form>>: chunk 0 is the full
\* table select `SELECT * FROM schema.table`, chunk i > 0 the i-th
\* `... WHERE ROWID BETWEEN 'x' AND 'y'`; form is the letter case of the text
\* around the two names (Oracle ROWIDs are mixed case: "orig").  Distinct
\* chunks of a task cover disjoint ROWID ranges and their texts differ in more
\* than letter case.
\* upper(rowid_sql) / strings.ToUpper(rowidSQL)
UpperSQL(sql) == <<ToUpper(sql[1]), ToUpper(sql[2]), sql[3], "upper">>

\* utils.StringsBuilder(`SELECT * FROM `, schemaName, `.`, tableName)
FullTableSQL(schemaName, tableName) == <<schemaName, tableName, 0, "upper">>

\* one CMD row of user_parallel_execute_chunks, ORDER BY chunk_id
ChunkCMD(schemaName, tableName, chunkID) == <<schemaName, tableName, chunkID, "orig">>

\* dba_tables.PARTITIONED of a table
Partitioned(upperTable) == IF upperTable = "T2" THEN "YES" ELSE "NO"

\* utils.StringsBuilder(schemaName, `_`, tableName, `_`, `TASK`, workerID)
TaskName(schemaName, tableName, workerID) == <<schemaName, tableName, workerID>>

TaskNames ==
  {TaskName(s, ToUpper(t), w) : s \in SchemaNames, t \in TableNames, w \in WorkerIDs}

VARIABLES
  waitSyncMeta,     \* rows of wait_sync_meta
  fullSyncMeta,     \* rows of full_sync_meta
  oraTasks,         \* parallel-execute tasks: -1 no task, n >= 0 task with n chunks
  oraStatRows,      \* dba_tables.NUM_ROWS per table (0 or not)
  oraChunkCount,    \* chunks CREATE_CHUNKS_BY_ROWID produces per table
  globalSCN,        \* snapshot SCN of this sync run
  insertBatchSize,  \* configured insert-batch-size
  run,              \* the chunk planner (InitWaitAndFullSyncMetaRecord) in progress
  runs,             \* planner invocations so far
  workers,          \* full-sync workers inside ModifyWaitAndFullSyncTableMetaRecord
  judge,            \* the last JudgingCheckpointResume call and its result
  incrementSyncMeta, \* rows of increment_sync_meta
  gen,              \* a GenOracleToMySQLTableList call: its channels and goroutines
  ddl,              \* a Table.GenCreateTableSQL call: its Table, catalog and result
  col,              \* a ReverseOracleTableColumnMapRule call: its column, rules and result
  ck                \* a reverserOracleTableCKToMySQL call: its check constraints and result

vars == <<waitSyncMeta, fullSyncMeta, oraTasks, oraStatRows, oraChunkCount,
          globalSCN, insertBatchSize, run, runs, workers, judge,
          incrementSyncMeta, gen, ddl, col, ck>>

oraVars == <<oraStatRows, oraChunkCount, globalSCN, insertBatchSize, judge>>

\* the schema reverser (packages o2m and reverser) keeps no state in the store
reverseVars == <<gen, ddl, col, ck>>

\* what the operations on wait_sync_meta and full_sync_meta never touch
otherVars == <<incrementSyncMeta, reverseVars>>

\* ------------------------------------------------------- sequence helpers
Range(seq) == {seq[i] : i \in 1..Len(seq)}

NoDuplicates(seq) == \A i, j \in 1..Len(seq) : i # j => seq[i] # seq[j]

\* -------------------------------------------------------------- meta rows
WaitKey(w) == <<w.schema, w.table, w.mode>>
FullKey(f) == <<f.schema, f.table, f.sql>>

\* a wait_sync_meta without its unique key
NoUniqueKey(rows, w) == FALSE

\* UNIQUE(source_schema_name, source_table_name, sync_mode)
WaitKeyExists(rows, w) == \E x \in rows : WaitKey(x) = WaitKey(w)

\* UNIQUE(source_schema_name, source_table_name, rowid_sql)
FullKeyExists(rows, f) == \E x \in rows : FullKey(x) = FullKey(f)

\* rows of full_sync_meta of one table
FullRowsOf(upperSchema, upperTable) ==
  {f \in fullSyncMeta : f.schema = upperSchema /\ f.table = upperTable}

\* FullSyncMeta.GetFullSyncMetaRecordCounts
GetFullSyncMetaRecordCounts(schemaName, tableName) ==
  Cardinality(FullRowsOf(ToUpper(schemaName), ToUpper(tableName)))

\* e.GormDB.Create(&[]FullSyncMeta): one INSERT statement, all rows or none
CanCreateFull(batch) ==
  /\ NoDuplicates([i \in 1..Len(batch) |-> FullKey(batch[i])])
  /\ \A i \in 1..Len(batch) : ~FullKeyExists(fullSyncMeta, batch[i])

\* the error of a Create that did not insert: a duplicate key, or any other
\* refusal of the statement by the database
CreateError(batch) == IF CanCreateFull(batch) THEN "full_sync_meta" ELSE "duplicate_entry"

\* --------------------------------------------------------- lifecycle queries
GetWaitSyncTableMetaRecord(sourceSchema, syncMode) ==
  {w \in waitSyncMeta : /\ w.schema = ToUpper(sourceSchema)
                        /\ w.scn = -1 /\ w.split = -1
                        /\ w.mode = syncMode}

\* GetPartSyncTableMetaRecord asking for full_split_times <> 0 only
GetPartIgnoringSCN(sourceSchema, syncMode) ==
  {w \in waitSyncMeta : /\ w.schema = ToUpper(sourceSchema)
                        /\ w.split # 0
                        /\ w.mode = syncMode}

GetPartSyncTableMetaRecord(sourceSchema, syncMode) ==
  {w \in waitSyncMeta : /\ w.schema = ToUpper(sourceSchema)
                        /\ w.scn > -1 /\ w.split > 0
                        /\ w.mode = syncMode}

\* GetFinishFullSyncMetaRecord that also takes tables with chunks left
GetFinishWithChunksLeft(schemaName, syncMode) ==
  {w \in waitSyncMeta : /\ w.schema = ToUpper(schemaName)
                        /\ w.scn > -1 /\ w.split >= 0
                        /\ w.mode = syncMode}

GetFinishFullSyncMetaRecord(schemaName, syncMode) ==
  {w \in waitSyncMeta : /\ w.schema = ToUpper(schemaName)
                        /\ w.scn > -1 /\ w.split = 0
                        /\ w.mode = syncMode}

\* the []string result of the three queries
TableInfo(tableMetas) == {ToUpper(w.table) : w \in tableMetas}

IsExistWaitSyncTableMetaRecord(schemaName, tableName, syncMode) ==
  \E w \in waitSyncMeta : /\ w.schema = ToUpper(schemaName)
                          /\ w.table = ToUpper(tableName)
                          /\ w.mode = syncMode

GetFullSyncMetaRowIDRecord(schemaName, tableName) ==
  {f.sql : f \in FullRowsOf(ToUpper(schemaName), ToUpper(tableName))}

\* ------------------------------------------------------------ resume judge
RECURSIVE JudgeLoopPrepend(_, _, _)
\* the loop of JudgingCheckpointResume putting each flagged table in front
JudgeLoopPrepend(schemaName, tableMetas, panicTblFullSlice) ==
  IF tableMetas = <<>> THEN panicTblFullSlice
  ELSE LET table == Head(tableMetas)
           fullRecordCounts == GetFullSyncMetaRecordCounts(schemaName, table.table)
       IN JudgeLoopPrepend(schemaName, Tail(tableMetas),
                           IF fullRecordCounts # table.split
                           THEN <<table.table>> \o panicTblFullSlice
                           ELSE panicTblFullSlice)

RECURSIVE JudgeLoop(_, _, _)
JudgeLoop(schemaName, tableMetas, panicTblFullSlice) ==
  IF tableMetas = <<>> THEN panicTblFullSlice
  ELSE LET table == Head(tableMetas)
           fullRecordCounts == GetFullSyncMetaRecordCounts(schemaName, table.table)
       IN JudgeLoop(schemaName, Tail(tableMetas),
                    IF fullRecordCounts # table.split
                    THEN Append(panicTblFullSlice, table.table)
                    ELSE panicTblFullSlice)

JudgingCheckpointResume(schemaName, tableMetas) == JudgeLoop(schemaName, tableMetas, <<>>)

IdleJudge == [pc |-> "idle", schemaName |-> "", tableMetas |-> <<>>, panic |-> <<>>]

\* ------------------------------------------------------------ chunk planner
IdleRun ==
  [pc |-> "idle", schemaName |-> "s1", tableName |-> "T1", workerID |-> 1,
   syncMode |-> "FULL", tableRows |-> 0, isPartition |-> "", res |-> <<>>,
   splits |-> <<>>, next |-> 1, fullMetaBatch |-> <<>>, rowCounts |-> 0,
   err |-> "", pre |-> 0]

InFlight == {"stats", "zeroCreate", "zeroUpdate", "taskCount", "taskDrop",
             "taskCreate", "createChunks", "listChunks", "emptyCreate",
             "insertAll", "insertBatch", "update", "closeTask"}

Ended == {"done", "failed", "crashed"}

WorkersIdle == \A w \in 1..NumWorkers : workers[w].pc = "idle"

\* no planner run, worker transaction or resume check is in progress
StoreQuiet == run.pc = "idle" /\ WorkersIdle /\ judge.pc = "idle"

RunTask == TaskName(run.schemaName, run.tableName, run.workerID)

\* the planner has returned or died: its locals are gone, its arguments and
\* its result are what the caller still has
EndRun(pc, err) ==
  [IdleRun EXCEPT !.pc = pc, !.err = err, !.schemaName = run.schemaName,
                  !.tableName = run.tableName, !.workerID = run.workerID,
                  !.syncMode = run.syncMode, !.pre = run.pre]

Fail(reason) == run' = EndRun("failed", reason)

\* utils.SplitIntSlice(arr, num): num consecutive segments of len(arr)/num
\* elements, the last one taking the remainder
SplitIntSlice(arr, num) ==
  IF num = 0 THEN <<arr>>
  ELSE LET quantity == Len(arr) \div num
       IN [i \in 1..num |->
             IF i # num THEN SubSeq(arr, (i - 1) * quantity + 1, i * quantity)
             ELSE SubSeq(arr, (i - 1) * quantity + 1, Len(arr))]

\* the FullSyncMeta built for one chunk predicate (lines 472-478)
ChunkMeta(schemaName, tableName, sql, isPartition) ==
  [schema |-> ToUpper(schemaName), table |-> ToUpper(tableName), sql |-> sql,
   scn |-> globalSCN, part |-> isPartition]

\* fullMetas of GetOracleTableChunksByRowID, one per row of res
FullMetas ==
  [i \in 1..Len(run.res) |->
     ChunkMeta(ToUpper(run.schemaName), ToUpper(run.tableName), run.res[i], run.isPartition)]

\* UpdateWaitSyncMetaTableRecord with the two columns of the Updates map swapped
UpdateWaitSwappedColumns(schemaName, tableName, rowCounts, scn, isPartition, syncMode) ==
  LET counts == IF rowCounts = 0 THEN 1 ELSE rowCounts
  IN {IF /\ w.schema = ToUpper(schemaName)
         /\ w.table = ToUpper(tableName)
         /\ w.mode = syncMode
      THEN [w EXCEPT !.scn = counts, !.split = scn, !.part = isPartition]
      ELSE w : w \in waitSyncMeta}

\* UpdateWaitSyncMetaTableRecord without the rowCounts == 0 normalisation
UpdateWaitKeepsZero(schemaName, tableName, rowCounts, scn, isPartition, syncMode) ==
  {IF /\ w.schema = ToUpper(schemaName)
      /\ w.table = ToUpper(tableName)
      /\ w.mode = syncMode
   THEN [w EXCEPT !.scn = scn, !.split = rowCounts, !.part = isPartition]
   ELSE w : w \in waitSyncMeta}

\* the rows written to wait_sync_meta by UpdateWaitSyncMetaTableRecord
UpdateWaitSyncMetaTableRecord(schemaName, tableName, rowCounts, scn, isPartition, syncMode) ==
  LET counts == IF rowCounts = 0 THEN 1 ELSE rowCounts
  IN {IF /\ w.schema = ToUpper(schemaName)
         /\ w.table = ToUpper(tableName)
         /\ w.mode = syncMode
      THEN [w EXCEPT !.scn = scn, !.split = counts, !.part = isPartition]
      ELSE w : w \in waitSyncMeta}

\* entry of InitWaitAndFullSyncMetaRecord; the caller plans the tables whose
\* names GetWaitSyncTableMetaRecord returns, before the full-sync workers start
StartRun(schemaName, tableName, workerID, syncMode) ==
  /\ StoreQuiet
  /\ runs < MaxRuns
  /\ tableName \in TableInfo(GetWaitSyncTableMetaRecord(schemaName, syncMode))
  /\ run' = [IdleRun EXCEPT !.pc = "stats", !.schemaName = schemaName,
                            !.tableName = tableName, !.workerID = workerID,
                            !.syncMode = syncMode,
                            !.pre = GetFullSyncMetaRecordCounts(schemaName, tableName)]
  /\ runs' = runs + 1
  /\ UNCHANGED <<waitSyncMeta, fullSyncMeta, oraTasks, oraVars, otherVars, workers>>

\* getOracleTableRowsByStatistics
ReadStatistics ==
  /\ run.pc = "stats"
  /\ \/ LET tableRows == oraStatRows[ToUpper(run.tableName)]
        IN run' = [run EXCEPT !.tableRows = tableRows,
                              !.isPartition = Partitioned(ToUpper(run.tableName)),
                              !.pc = IF tableRows = 0 THEN "zeroCreate" ELSE "taskCount"]
     \/ Fail("statistics")
  /\ UNCHANGED <<waitSyncMeta, fullSyncMeta, oraTasks, oraVars, otherVars, runs, workers>>

\* statistics rows = 0: the full-table FullSyncMeta row (lines 160-175)
ZeroRowsCreate ==
  /\ run.pc = "zeroCreate"
  /\ LET meta == ChunkMeta(run.schemaName, run.tableName,
                           FullTableSQL(run.schemaName, run.tableName), run.isPartition)
     IN \/ /\ CanCreateFull(<<meta>>)
           /\ fullSyncMeta' = fullSyncMeta \cup {meta}
           /\ run' = [run EXCEPT !.pc = "zeroUpdate"]
        \/ /\ UNCHANGED fullSyncMeta
           /\ Fail(CreateError(<<meta>>))
  /\ UNCHANGED <<waitSyncMeta, oraTasks, oraVars, otherVars, runs, workers>>

\* statistics rows = 0: UpdateWaitSyncMetaTableRecord and return (lines 176-179)
ZeroRowsUpdate ==
  /\ run.pc = "zeroUpdate"
  /\ \/ /\ waitSyncMeta' = UpdateWaitSyncMetaTableRecord(run.schemaName, run.tableName,
                              run.tableRows, globalSCN, run.isPartition, run.syncMode)
        /\ run' = EndRun("done", "")
     \/ /\ UNCHANGED waitSyncMeta
        /\ Fail("wait_sync_meta")
  /\ UNCHANGED <<fullSyncMeta, oraTasks, oraVars, otherVars, runs, workers>>

\* StartOracleChunkCreateTask: SELECT COUNT(1) FROM user_parallel_execute_chunks
TaskCountChunks ==
  /\ run.pc = "taskCount"
  /\ \/ LET count == IF oraTasks[RunTask] > 0 THEN oraTasks[RunTask] ELSE 0
        IN run' = [run EXCEPT !.pc = IF count # 0 THEN "taskDrop" ELSE "taskCreate"]
     \/ Fail("count_chunks")
  /\ UNCHANGED <<waitSyncMeta, fullSyncMeta, oraTasks, oraVars, otherVars, runs, workers>>

\* StartOracleChunkCreateTask: CloseOracleChunkTask of the leftover task
TaskDropLeftover ==
  /\ run.pc = "taskDrop"
  /\ \/ /\ oraTasks' = [oraTasks EXCEPT ![RunTask] = -1]
        /\ run' = [run EXCEPT !.pc = "taskCreate"]
     \/ /\ UNCHANGED oraTasks
        /\ Fail("drop_task")
  /\ UNCHANGED <<waitSyncMeta, fullSyncMeta, oraVars, otherVars, runs, workers>>

\* StartOracleChunkCreateTask: DBMS_PARALLEL_EXECUTE.CREATE_TASK
TaskCreate ==
  /\ run.pc = "taskCreate"
  /\ \/ /\ oraTasks[RunTask] = -1
        /\ oraTasks' = [oraTasks EXCEPT ![RunTask] = 0]
        /\ run' = [run EXCEPT !.pc = "createChunks"]
     \/ /\ oraTasks[RunTask] # -1
        /\ UNCHANGED oraTasks
        /\ Fail("task_exists")
     \/ /\ UNCHANGED oraTasks
        /\ Fail("create_task")
  /\ UNCHANGED <<waitSyncMeta, fullSyncMeta, oraVars, otherVars, runs, workers>>

\* StartOracleCreateChunkByRowID: DBMS_PARALLEL_EXECUTE.CREATE_CHUNKS_BY_ROWID
CreateChunksByRowID ==
  /\ run.pc = "createChunks"
  /\ \/ /\ oraTasks' = [oraTasks EXCEPT ![RunTask] = oraChunkCount[ToUpper(run.tableName)]]
        /\ run' = [run EXCEPT !.pc = "listChunks"]
     \/ /\ UNCHANGED oraTasks
        /\ Fail("create_chunks")
  /\ UNCHANGED <<waitSyncMeta, fullSyncMeta, oraVars, otherVars, runs, workers>>

\* GetOracleTableChunksByRowID: the CMD query and the choice of the write path
ListChunks ==
  /\ run.pc = "listChunks"
  /\ \/ LET n == IF oraTasks[RunTask] > 0 THEN oraTasks[RunTask] ELSE 0
            res == [i \in 1..n |->
                      ChunkCMD(ToUpper(run.schemaName), ToUpper(run.tableName), i)]
            fullMetaIdx == [i \in 1..n |-> i]
            splitNums == n \div insertBatchSize
        IN run' = [run EXCEPT
                     !.res = res,
                     !.splits = IF n = 0 \/ n <= insertBatchSize THEN <<>>
                                ELSE SplitIntSlice(fullMetaIdx, splitNums),
                     !.pc = IF n = 0 THEN "emptyCreate"
                            ELSE IF n <= insertBatchSize THEN "insertAll"
                            ELSE "insertBatch"]
     \/ Fail("list_chunks")
  /\ UNCHANGED <<waitSyncMeta, fullSyncMeta, oraTasks, oraVars, otherVars, runs, workers>>

\* GetOracleTableChunksByRowID, len(res) == 0: the full-table row (lines 446-465)
EmptyChunksCreate ==
  /\ run.pc = "emptyCreate"
  /\ LET schemaName == ToUpper(run.schemaName)
         tableName == ToUpper(run.tableName)
         meta == [schema |-> schemaName, table |-> tableName,
                  sql |-> FullTableSQL(schemaName, tableName),
                  scn |-> globalSCN, part |-> run.isPartition]
     IN \/ /\ CanCreateFull(<<meta>>)
           /\ fullSyncMeta' = fullSyncMeta \cup {meta}
           /\ run' = [run EXCEPT !.pc = "update", !.rowCounts = 0]
        \/ /\ UNCHANGED fullSyncMeta
           /\ Fail(CreateError(<<meta>>))
  /\ UNCHANGED <<waitSyncMeta, oraTasks, oraVars, otherVars, runs, workers>>

\* GetOracleTableChunksByRowID, len(fullMetas) <= insertBatchSize (lines 483-486)
InsertAllChunks ==
  /\ run.pc = "insertAll"
  /\ \/ /\ CanCreateFull(FullMetas)
        /\ fullSyncMeta' = fullSyncMeta \cup Range(FullMetas)
        /\ run' = [run EXCEPT !.pc = "update", !.rowCounts = Len(run.res)]
     \/ /\ UNCHANGED fullSyncMeta
        /\ Fail(CreateError(FullMetas))
  /\ UNCHANGED <<waitSyncMeta, oraTasks, oraVars, otherVars, runs, workers>>

\* fullMetaBatch as the Create of the current loop iteration receives it: the
\* slice is declared before the loop and appended to in every iteration
NextFullMetaBatch ==
  LET ms == run.splits[run.next]
  IN run.fullMetaBatch \o [i \in 1..Len(ms) |-> FullMetas[ms[i]]]

\* GetOracleTableChunksByRowID, one iteration of the batch loop (lines 491-498)
InsertChunkBatch ==
  /\ run.pc = "insertBatch"
  /\ LET fullMetaBatch == NextFullMetaBatch
         last == run.next = Len(run.splits)
     IN \/ /\ CanCreateFull(fullMetaBatch)
           /\ fullSyncMeta' = fullSyncMeta \cup Range(fullMetaBatch)
           /\ run' = [run EXCEPT !.fullMetaBatch = fullMetaBatch,
                                 !.next = @ + 1,
                                 !.pc = IF last THEN "update" ELSE "insertBatch",
                                 !.rowCounts = IF last THEN Len(run.res) ELSE @]
        \/ /\ UNCHANGED fullSyncMeta
           /\ Fail(CreateError(fullMetaBatch))
  /\ UNCHANGED <<waitSyncMeta, oraTasks, oraVars, otherVars, runs, workers>>

\* InitWaitAndFullSyncMetaRecord: UpdateWaitSyncMetaTableRecord (lines 202-204)
UpdateWait ==
  /\ run.pc = "update"
  /\ \/ /\ waitSyncMeta' = UpdateWaitSyncMetaTableRecord(run.schemaName, run.tableName,
                              run.rowCounts, globalSCN, run.isPartition, run.syncMode)
        /\ run' = [run EXCEPT !.pc = "closeTask"]
     \/ /\ UNCHANGED waitSyncMeta
        /\ Fail("wait_sync_meta")
  /\ UNCHANGED <<fullSyncMeta, oraTasks, oraVars, otherVars, runs, workers>>

\* InitWaitAndFullSyncMetaRecord: CloseOracleChunkTask and return (lines 206-209)
CloseOracleChunkTask ==
  /\ run.pc = "closeTask"
  /\ \/ /\ oraTasks' = [oraTasks EXCEPT ![RunTask] = -1]
        /\ run' = EndRun("done", "")
     \/ /\ UNCHANGED oraTasks
        /\ Fail("drop_task")
  /\ UNCHANGED <<waitSyncMeta, fullSyncMeta, oraVars, otherVars, runs, workers>>

\* the process dies between two statements of the planner
Crash ==
  /\ run.pc \in InFlight
  /\ run' = EndRun("crashed", "")
  /\ UNCHANGED <<waitSyncMeta, fullSyncMeta, oraTasks, oraVars, otherVars, runs, workers>>

\* ------------------------------------------------------- wait_sync_meta ops
RECURSIVE InitWaitLoopRawNames(_, _, _, _, _)
\* the loop of InitWaitSyncTableMetaRecord storing the table name as given
InitWaitLoopRawNames(rows, schemaName, tableName, syncMode, failAt) ==
  IF tableName = <<>> THEN [rows |-> rows, ok |-> TRUE]
  ELSE LET meta == [schema |-> ToUpper(schemaName), table |-> Head(tableName),
                    mode |-> syncMode, scn |-> -1, split |-> -1, part |-> ""]
       IN IF failAt = 1 \/ WaitKeyExists(rows, meta)
          THEN [rows |-> rows, ok |-> FALSE]
          ELSE InitWaitLoopRawNames(rows \cup {meta}, schemaName, Tail(tableName),
                                    syncMode, failAt - 1)

RECURSIVE InitWaitLoop(_, _, _, _, _)
\* the loop of InitWaitSyncTableMetaRecord over rows; the failAt-th Create is
\* refused by the database (failAt = 0: none is), as is one of a present key
InitWaitLoop(rows, schemaName, tableName, syncMode, failAt) ==
  IF tableName = <<>> THEN [rows |-> rows, ok |-> TRUE]
  ELSE LET meta == [schema |-> ToUpper(schemaName), table |-> ToUpper(Head(tableName)),
                    mode |-> syncMode, scn |-> -1, split |-> -1, part |-> ""]
       IN IF failAt = 1 \/ WaitKeyExists(rows, meta)
          THEN [rows |-> rows, ok |-> FALSE]
          ELSE InitWaitLoop(rows \cup {meta}, schemaName, Tail(tableName), syncMode,
                            failAt - 1)

TableLists == UNION {[1..n -> TableNames] : n \in 1..MaxInitTables}

InitWaitSyncTableMetaRecord(schemaName, tableName, syncMode, failAt) ==
  /\ StoreQuiet
  /\ waitSyncMeta' = InitWaitLoop(waitSyncMeta, schemaName, tableName, syncMode, failAt).rows
  /\ waitSyncMeta' # waitSyncMeta
  /\ UNCHANGED <<fullSyncMeta, oraTasks, oraVars, otherVars, run, runs, workers>>

DeleteWaitSyncTableMetaRecord(schemaName, tableName, syncMode) ==
  /\ StoreQuiet
  /\ waitSyncMeta' = {w \in waitSyncMeta : ~(/\ w.schema = ToUpper(schemaName)
                                             /\ w.table = ToUpper(tableName)
                                             /\ w.mode = syncMode)}
  /\ waitSyncMeta' # waitSyncMeta
  /\ UNCHANGED <<fullSyncMeta, oraTasks, oraVars, otherVars, run, runs, workers>>

TruncateFullSyncTableMetaRecord ==
  /\ StoreQuiet
  /\ fullSyncMeta # {}
  /\ fullSyncMeta' = {}
  /\ UNCHANGED <<waitSyncMeta, oraTasks, oraVars, otherVars, run, runs, workers>>

\* ------------------------------------------------------- full-sync workers
\* ModifyWaitAndFullSyncTableMetaRecord runs its two statements in one
\* transaction: the rows a worker has deleted (del) and the rows it has written
\* (upd) stay locked and invisible to the others until it commits.
IdleWorker == [pc |-> "idle", schema |-> "", table |-> "", mode |-> "",
               del |-> {}, upd |-> {}]

\* the rowid_sql texts a worker is called with
RowidSQLArgs(schemaName, tableName) ==
  {<<ToUpper(schemaName), ToUpper(tableName), c, f>> : c \in 0..MaxChunks, f \in Forms}

\* the rows the DELETE of lines 79-83 matches
DeleteMatches(sourceSchemaName, sourceTableName, rowidSQL) ==
  {f \in fullSyncMeta : /\ f.schema = ToUpper(sourceSchemaName)
                        /\ f.table = ToUpper(sourceTableName)
                        /\ UpperSQL(f.sql) = UpperSQL(rowidSQL)}

\* the rows the UPDATE of lines 89-94 matches
UpdateMatches(upperSchema, upperTable, syncMode) ==
  {w \in waitSyncMeta : /\ w.schema = upperSchema
                        /\ w.table = upperTable
                        /\ w.mode = syncMode}

\* an UPDATE that sets the row back to unplanned while it counts down
DecrementAndUnsetSCN(row) == [row EXCEPT !.split = @ - 1, !.scn = -1]

\* gorm.Expr("full_split_times - 1")
DecrementSplitTimes(row) == [row EXCEPT !.split = @ - 1]

\* row locks held by the other open transactions
FullRowsLocked(w) == UNION {workers[o].del : o \in (1..NumWorkers) \ {w}}

\* an UPDATE that does not wait for the row locks of the other transactions
NoWaitRowLock(w) == {}

WaitRowsLocked(w) == UNION {{u.old : u \in workers[o].upd} : o \in (1..NumWorkers) \ {w}}

\* a rollback that keeps the DELETE of the first statement
RollbackKeepsDelete(w) == fullSyncMeta \ workers[w].del

\* what a rolled-back transaction leaves in full_sync_meta
RollbackFullSyncMeta(w) == fullSyncMeta

\* tx.Model(FullSyncMeta{}).Where(...).Delete, first statement of the transaction;
\* workers take their chunks from tables that chunk planning has updated
TxDelete(w, sourceSchemaName, sourceTableName, rowidSQL, syncMode) ==
  /\ workers[w].pc = "idle"
  /\ run.pc = "idle" /\ judge.pc = "idle"
  /\ \E m \in UpdateMatches(ToUpper(sourceSchemaName), ToUpper(sourceTableName), syncMode) :
        m.scn > -1 /\ m.split > -MaxUnderflow
  /\ LET matches == DeleteMatches(sourceSchemaName, sourceTableName, rowidSQL)
     IN /\ matches \cap FullRowsLocked(w) = {}
        /\ workers' = [workers EXCEPT ![w] =
              [pc |-> "deleted", schema |-> ToUpper(sourceSchemaName),
               table |-> ToUpper(sourceTableName), mode |-> syncMode,
               del |-> matches, upd |-> {}]]
  /\ UNCHANGED <<waitSyncMeta, fullSyncMeta, oraTasks, oraVars, otherVars, run, runs>>

\* tx.Model(&WaitSyncMeta{}).Where(...).Update, second statement
TxUpdate(w) ==
  /\ workers[w].pc = "deleted"
  /\ LET matches == UpdateMatches(workers[w].schema, workers[w].table, workers[w].mode)
     IN /\ matches \cap WaitRowsLocked(w) = {}
        /\ workers' = [workers EXCEPT ![w].pc = "updated",
                                      ![w].upd = {[old |-> m, new |-> DecrementSplitTimes(m)] :
                                                    m \in matches}]
  /\ UNCHANGED <<waitSyncMeta, fullSyncMeta, oraTasks, oraVars, otherVars, run, runs>>

\* the closure returned nil: commit
TxCommit(w) ==
  /\ workers[w].pc = "updated"
  /\ fullSyncMeta' = fullSyncMeta \ workers[w].del
  /\ waitSyncMeta' = (waitSyncMeta \ {u.old : u \in workers[w].upd})
                        \cup {u.new : u \in workers[w].upd}
  /\ workers' = [workers EXCEPT ![w] = IdleWorker]
  /\ UNCHANGED <<oraTasks, oraVars, otherVars, run, runs>>

\* a statement or the commit returned an error: rollback
TxRollback(w) ==
  /\ workers[w].pc \in {"deleted", "updated"}
  /\ fullSyncMeta' = RollbackFullSyncMeta(w)
  /\ workers' = [workers EXCEPT ![w] = IdleWorker]
  /\ UNCHANGED <<waitSyncMeta, oraTasks, oraVars, otherVars, run, runs>>

\* --------------------------------------------------------- resume check
\* the WaitSyncMeta lists the resume check is called with
MetaLists ==
  UNION {[1..n -> waitSyncMeta] : n \in 1..MaxJudgeTables}

\* a call of JudgingCheckpointResume at start-up; it only reads the store
Judge(schemaName, tableMetas) ==
  /\ StoreQuiet
  /\ judge' = [pc |-> "done", schemaName |-> schemaName, tableMetas |-> tableMetas,
               panic |-> JudgingCheckpointResume(schemaName, tableMetas)]
  /\ UNCHANGED <<waitSyncMeta, fullSyncMeta, oraTasks, otherVars, oraStatRows, oraChunkCount,
                 globalSCN, insertBatchSize, run, runs, workers>>

\* the caller has taken the result
JudgeReturn ==
  /\ judge.pc = "done"
  /\ judge' = IdleJudge
  /\ UNCHANGED <<waitSyncMeta, fullSyncMeta, oraTasks, otherVars, oraStatRows, oraChunkCount,
                 globalSCN, insertBatchSize, run, runs, workers>>

\* -------------------------------------------------- increment_sync_meta ops
IncrementKey(m) == <<m.schema, m.table>>

\* UNIQUE(source_schema_name, source_table_name)
IncrementKeyExists(rows, m) == \E x \in rows : IncrementKey(x) = IncrementKey(m)

\* IncrementSyncMeta.GetIncrementSyncMetaRecordCounts
GetIncrementSyncMetaRecordCounts(schemaName, tableName) ==
  Cardinality({m \in incrementSyncMeta : /\ m.schema = ToUpper(schemaName)
                                         /\ m.table = ToUpper(tableName)})

IsExistIncrementSyncMetaRecord(schemaName, transferTableSlice) ==
  LET counts(tbl) == GetIncrementSyncMetaRecordCounts(schemaName, tbl)
      absent(tbl) == counts(tbl) = 0 \/ counts(tbl) > 1
      present(tbl) == counts(tbl) = 1
  IN [existRecords |-> SelectSeq(transferTableSlice, present),
      notExistRecords |-> SelectSeq(transferTableSlice, absent)]

\* an IncrementSyncMeta row whose source_table_scn is left at its zero value
IncrementMetaTableSCNUnset(schemaName, tableName, isPartition, scn) ==
  [schema |-> ToUpper(schemaName), table |-> ToUpper(tableName),
   scn |-> scn, tableSCN |-> 0, part |-> isPartition]

\* the row InitIncrementSyncMetaRecord creates
IncrementMeta(schemaName, tableName, isPartition, scn) ==
  [schema |-> ToUpper(schemaName), table |-> ToUpper(tableName),
   scn |-> scn, tableSCN |-> scn, part |-> isPartition]

\* a Create the database refuses (a present key among the refusals) returns
\* the error and leaves the table as it was
InitIncrementSyncMetaRecord(schemaName, tableName, isPartition, scn) ==
  /\ StoreQuiet
  /\ LET meta == IncrementMeta(schemaName, tableName, isPartition, scn)
     IN /\ ~IncrementKeyExists(incrementSyncMeta, meta)
        /\ incrementSyncMeta' = incrementSyncMeta \cup {meta}
  /\ UNCHANGED <<waitSyncMeta, fullSyncMeta, oraTasks, oraVars, run, runs, workers,
                 reverseVars>>

\* the switch to increment mode: a table whose full sync is finished and that
\* has no increment anchor yet gets one at the SCN of its full sync
InitIncrement(modes) ==
  \E s \in SchemaNames, m \in modes :
    \E w \in GetFinishFullSyncMetaRecord(s, m) :
      /\ w.table \in Range(IsExistIncrementSyncMetaRecord(s, <<w.table>>).notExistRecords)
      /\ InitIncrementSyncMetaRecord(s, w.table, w.part, w.scn)

\* ------------------------------------------------------- schema reverser
\* ---- GenOracleToMySQLTableList: producer, worker pool and collector
\* the candidate tables of the Oracle schema, in catalog order; "emp" is
\* configured in lower case
CandidateTables == <<"emp", "DEPT", "SALES", "TMP_LOG", "CLU_ORD">>

\* exporterTableSlice: a selection of at most MaxTables candidates
ExporterTableSlices ==
  {SelectSeq(CandidateTables, LAMBDA t : t \in chosen) :
     chosen \in {c \in SUBSET Range(CandidateTables) : Cardinality(c) <= MaxTables}}

\* the tables of a list that the catalog reports as partitioned, temporary
\* and clustered
FilterOraclePartitionTable(tableSlice) == SelectSeq(tableSlice, LAMBDA t : t = "SALES")
FilterOracleTemporaryTable(tableSlice) == SelectSeq(tableSlice, LAMBDA t : t = "TMP_LOG")
FilterOracleClusteredTable(tableSlice) == SelectSeq(tableSlice, LAMBDA t : t = "CLU_ORD")

\* the Table a worker builds for the name ts it received
TablePlan(ts) == [SourceTableName |-> ToUpper(ts), TargetTableName |-> ToUpper(ts)]

NoWorker == [pc |-> "none", tbl |-> ""]

IdleGen ==
  [pc |-> "idle", exporterTableSlice |-> <<>>, threads |-> 0,
   partitionTables |-> <<>>, temporaryTables |-> <<>>, clusteredTables |-> <<>>,
   chS |-> <<>>, chSClosed |-> FALSE, chT |-> <<>>, chTClosed |-> FALSE,
   tables |-> <<>>, producer |-> 0, collector |-> "none", spawned |-> 0, wg |-> 0,
   workers |-> [w \in 1..MaxThreads |-> NoWorker], result |-> <<>>]

storeVars == <<waitSyncMeta, fullSyncMeta, oraTasks, oraVars, run, runs, workers,
               incrementSyncMeta>>

\* the filters, the character set and version checks and the collation and
\* table type queries succeed; the channels are made and the collector and
\* the producer are started
GenStart(exporterTableSlice, threads) ==
  /\ gen.pc = "idle"
  /\ gen' = [IdleGen EXCEPT
               !.pc = "spawn",
               !.exporterTableSlice = exporterTableSlice,
               !.threads = threads,
               !.partitionTables = FilterOraclePartitionTable(exporterTableSlice),
               !.temporaryTables = FilterOracleTemporaryTable(exporterTableSlice),
               !.clusteredTables = FilterOracleClusteredTable(exporterTableSlice),
               !.producer = 1,
               !.collector = "range"]
  /\ UNCHANGED <<storeVars, ddl, col, ck>>

\* one of the catalog queries before the pool fails: no Table is returned
GenCatalogError(exporterTableSlice, threads) ==
  /\ gen.pc = "idle"
  /\ gen' = [IdleGen EXCEPT !.pc = "failed",
                            !.exporterTableSlice = exporterTableSlice,
                            !.threads = threads]
  /\ UNCHANGED <<storeVars, ddl, col, ck>>

\* for _, t := range exporterTableSlice { chS <- t }
ProducerSend ==
  /\ gen.producer \in 1..Len(gen.exporterTableSlice)
  /\ Len(gen.chS) < BufferSize
  /\ gen' = [gen EXCEPT !.chS = Append(@, gen.exporterTableSlice[gen.producer]),
                        !.producer = @ + 1]
  /\ UNCHANGED <<storeVars, ddl, col, ck>>

\* close(chS)
ProducerClose ==
  /\ gen.producer = Len(gen.exporterTableSlice) + 1
  /\ ~gen.chSClosed
  /\ gen' = [gen EXCEPT !.chSClosed = TRUE]
  /\ UNCHANGED <<storeVars, ddl, col, ck>>

\* wg.Add(1); go func() { ... }()
SpawnWorker ==
  /\ gen.pc = "spawn"
  /\ gen.spawned < gen.threads
  /\ gen' = [gen EXCEPT !.spawned = @ + 1, !.wg = @ + 1,
                        !.workers[gen.spawned + 1] = [pc |-> "recv", tbl |-> ""]]
  /\ UNCHANGED <<storeVars, ddl, col, ck>>

\* for ts := range chS: a name is received and its Table is built
WorkerReceive(w) ==
  /\ gen.workers[w].pc = "recv"
  /\ gen.chS # <<>>
  /\ gen' = [gen EXCEPT !.chS = Tail(@),
                        !.workers[w] = [pc |-> "send", tbl |-> TablePlan(Head(gen.chS))]]
  /\ UNCHANGED <<storeVars, ddl, col, ck>>

\* chT <- tbl; a send on a closed channel panics
WorkerSend(w) ==
  /\ gen.workers[w].pc = "send"
  /\ \/ /\ gen.chTClosed
        /\ gen' = [gen EXCEPT !.workers[w].pc = "panic"]
     \/ /\ ~gen.chTClosed
        /\ Len(gen.chT) < BufferSize
        /\ gen' = [gen EXCEPT !.chT = Append(@, gen.workers[w].tbl),
                              !.workers[w] = [pc |-> "recv", tbl |-> ""]]
  /\ UNCHANGED <<storeVars, ddl, col, ck>>

\* chS is closed and drained: the range loop ends, defer wg.Done()
WorkerExit(w) ==
  /\ gen.workers[w].pc = "recv"
  /\ gen.chS = <<>> /\ gen.chSClosed
  /\ gen' = [gen EXCEPT !.workers[w].pc = "exit", !.wg = @ - 1]
  /\ UNCHANGED <<storeVars, ddl, col, ck>>

\* for tbl := range chT { tables = append(tables, tbl) }
CollectorAppend ==
  /\ gen.collector = "range"
  /\ gen.chT # <<>>
  /\ gen' = [gen EXCEPT !.chT = Tail(@), !.tables = Append(@, Head(gen.chT))]
  /\ UNCHANGED <<storeVars, ddl, col, ck>>

\* chT is closed and drained: the collector goes on to done()
CollectorDrained ==
  /\ gen.collector = "range"
  /\ gen.chT = <<>> /\ gen.chTClosed
  /\ gen' = [gen EXCEPT !.collector = "signal"]
  /\ UNCHANGED <<storeVars, ddl, col, ck>>

\* a wg.Wait() that does not wait
NoWaitGroup == TRUE

\* wg.Wait() returns
WaitGroupDone == gen.wg = 0

\* wg.Wait(); close(chT)
CloseChT ==
  /\ gen.pc = "spawn"
  /\ gen.spawned = gen.threads
  /\ WaitGroupDone
  /\ gen' = [gen EXCEPT !.pc = "recvC", !.chTClosed = TRUE]
  /\ UNCHANGED <<storeVars, ddl, col, ck>>

\* a return that does not receive from c
NoReceiveFromC == TRUE

\* c is unbuffered: <-c returns when the collector is at c <- struct{}{}
CollectorSignals == gen.collector = "signal"

\* <-c; return tables, partitionTables, temporaryTables, clusteredTables, nil
GenReturn ==
  /\ gen.pc = "recvC"
  /\ CollectorSignals
  /\ gen' = [gen EXCEPT !.pc = "returned", !.result = gen.tables,
                        !.collector = IF @ = "signal" THEN "exit" ELSE @]
  /\ UNCHANGED <<storeVars, ddl, col, ck>>

\* ---- Table.GenCreateTableSQL
\* utils.OracleCollationMap: the Oracle collations that have a MySQL one
OracleCollationMap ==
  [c \in {"BINARY", "BINARY_CI"} |->
     IF c = "BINARY" THEN "utf8mb4_bin" ELSE "utf8mb4_general_ci"]

\* collations a schema or table can carry ("": none)
Collations == {"", "BINARY_CI", "XGERMAN"}

\* values of NLS_COMP
NLSComps == {"BINARY", "XGERMAN"}

TargetDBTypes == {"MYSQL", "TIDB"}

\* target-table-option as configured
TableOptions == {"", "shard_row_id_bits = 2"}

\* values of the TiDB variable tidb_enable_clustered_index
ClusteredIndexValues == {"ON", "OFF", "off", "INT_ONLY", ""}

\* the TiDB config: alter-primary-key is missing, true or false
AlterPKValues == {"missing", "true", "false"}

\* rows of the primary key query, each the columns of its COLUMN_LIST
PrimaryKeyMaps == {<<>>, <<<<"ID">>>>, <<<<"ID", "NAME">>>>, <<<<"ID">>, <<"NAME">>>>}

\* the target type the column rule gives the column ID
IDColumnTypes == {"BIGINT", "VARCHAR(10)"}

TableComments == {"", "staff"}

\* the Tables GenCreateTableSQL is called on
Tables ==
  [SourceTableName : {"EMP"}, TargetDBType : TargetDBTypes,
   TargetTableOption : TableOptions, OracleCollation : BOOLEAN,
   SourceSchemaCollation : Collations, SourceTableCollation : Collations,
   SourceDBNLSComp : NLSComps]

\* what the catalog and the target database answer during one call; failing
\* is the query that returns an error ("": none)
Catalogs ==
  [primaryKeyMap : PrimaryKeyMaps, idColumnType : IDColumnTypes,
   tableComment : TableComments, clusteredIdxVal : ClusteredIndexValues,
   pkVal : AlterPKValues, failing : {"", "index", "column", "tidb"}]

\* strings.Contains(strings.ToUpper(columnType), integerType) for some type of
\* utils.TiDBIntegerPrimaryKeyList
ContainsIntegerType(columnType) ==
  \E integerType \in {"TINYINT", "SMALLINT", "MEDIUMINT", "INT", "BIGINT"} :
    \/ columnType = integerType
    \/ columnType = "BIGINT" /\ integerType = "INT"

\* the collation part of GenCreateTableSQL
TableCollation(t) ==
  IF t.OracleCollation
  THEN IF t.SourceTableCollation # "" /\ t.SourceTableCollation \notin DOMAIN OracleCollationMap
       THEN [err |-> "table collation isn't support", tableCollation |-> ""]
       ELSE IF /\ t.SourceTableCollation = "" /\ t.SourceSchemaCollation # ""
               /\ t.SourceSchemaCollation \notin DOMAIN OracleCollationMap
       THEN [err |-> "schema collation isn't support", tableCollation |-> ""]
       ELSE IF t.SourceTableName = "" /\ t.SourceSchemaCollation = ""
       THEN [err |-> "schema collation isn't support", tableCollation |-> ""]
       ELSE [err |-> "",
             tableCollation |->
               IF t.SourceTableCollation # ""
               THEN OracleCollationMap[t.SourceTableCollation]
               ELSE IF t.SourceSchemaCollation # ""
               THEN OracleCollationMap[t.SourceSchemaCollation]
               ELSE ""]
  ELSE IF t.SourceDBNLSComp \in DOMAIN OracleCollationMap
       THEN [err |-> "", tableCollation |-> OracleCollationMap[t.SourceDBNLSComp]]
       ELSE [err |-> "db nls_comp isn't support", tableCollation |-> ""]

\* a PRIMARY KEY fragment is <<"PRIMARY KEY", columns>>, pkArr the back-quoted columns
\* a primary key built from the first row whatever the number of rows
FirstPrimaryKeyRowOnly(primaryKeyMap) ==
  IF Len(primaryKeyMap) > 0
  THEN [err |-> "",
        keysMeta |-> << <<"PRIMARY KEY",
                          [i \in 1..Len(primaryKeyMap[1]) |-> ToUpper(primaryKeyMap[1][i])]>> >>,
        pkArr |-> primaryKeyMap[1]]
  ELSE [err |-> "", keysMeta |-> <<>>, pkArr |-> <<>>]

\* keysMeta holds the fragment PRIMARY KEY (cols) as <<"PRIMARY KEY", cols>>
reverserOracleTablePKToMySQL(primaryKeyMap) ==
  IF Len(primaryKeyMap) > 1
  THEN [err |-> "primary key exist multiple values", keysMeta |-> <<>>, pkArr |-> <<>>]
  ELSE IF Len(primaryKeyMap) > 0
  THEN [err |-> "",
        keysMeta |-> << <<"PRIMARY KEY",
                          [i \in 1..Len(primaryKeyMap[1]) |-> ToUpper(primaryKeyMap[1][i])]>> >>,
        pkArr |-> primaryKeyMap[1]]
  ELSE [err |-> "", keysMeta |-> <<>>, pkArr |-> <<>>]

\* the columns of the table after the column rule: name and target type
ColumnMetas(catalog) == << <<"ID", catalog.idColumnType>>, <<"NAME", "VARCHAR(30)">> >>

\* a flag that is set by an integer column whatever the primary key is
IntegerColumnWhateverPK(pkColumnName, columnMetas) ==
  \E i \in 1..Len(columnMetas) : ContainsIntegerType(ToUpper(columnMetas[i][2]))

\* a flag that is left at its initial false
SinglePKNeverInteger(pkColumnName, columnMetas) == FALSE

\* the flag reverserOracleTableColumnToMySQL returns next to the column metas
SinglePKColumnTypeIsInteger(pkColumnName, columnMetas) ==
  /\ Len(pkColumnName) = 1
  /\ \E i \in 1..Len(columnMetas) :
       /\ ToUpper(pkColumnName[1]) = ToUpper(columnMetas[i][1])
       /\ ContainsIntegerType(ToUpper(columnMetas[i][2]))

\* the table-option part of GenCreateTableSQL: the option token of the
\* statement ("": the statement has none)
TableOption(t, catalog, pkINFO, singlePKColumnTypeIsInteger) ==
  IF t.TargetDBType = "MYSQL" \/ t.TargetTableOption = ""
  THEN [err |-> "", option |-> ""]
  ELSE IF catalog.failing = "tidb"
  THEN [err |-> "tidb", option |-> ""]
  ELSE IF ToUpper(catalog.clusteredIdxVal) = "OFF"
  THEN [err |-> "",
        option |-> IF t.TargetTableOption # "" THEN ToUpper(t.TargetTableOption) ELSE ""]
  ELSE IF ToUpper(catalog.clusteredIdxVal) = "ON"
  THEN [err |-> "", option |-> ""]
  ELSE IF catalog.pkVal = "missing"
  THEN [err |-> "", option |-> ""]
  ELSE LET isAlterPK == catalog.pkVal = "true"
       IN IF ~isAlterPK /\ Len(pkINFO) = 1 /\ singlePKColumnTypeIsInteger
          THEN [err |-> "", option |-> ""]
          ELSE IF \/ isAlterPK
                  \/ ~isAlterPK /\ Len(pkINFO) > 1
                  \/ ~isAlterPK /\ ~singlePKColumnTypeIsInteger
          THEN [err |-> "",
                option |-> IF t.TargetTableOption # "" THEN ToUpper(t.TargetTableOption)
                           ELSE ""]
          ELSE [err |-> "table-option not support", option |-> ""]

\* no CREATE TABLE statement
NoSQL == [columns |-> <<>>, keys |-> <<>>, collate |-> "", option |-> "", comment |-> ""]

\* the CREATE TABLE statement by its parts, and the error
GenCreateTableSQL(t, catalog) ==
  LET collation == TableCollation(t)
      pk == reverserOracleTablePKToMySQL(catalog.primaryKeyMap)
      columnMetas == ColumnMetas(catalog)
      single == SinglePKColumnTypeIsInteger(pk.pkArr, columnMetas)
      opt == TableOption(t, catalog, pk.pkArr, single)
  IN IF collation.err # "" THEN [err |-> collation.err, createTableSQL |-> NoSQL]
     ELSE IF catalog.failing = "index" THEN [err |-> "index", createTableSQL |-> NoSQL]
     ELSE IF pk.err # "" THEN [err |-> pk.err, createTableSQL |-> NoSQL]
     ELSE IF catalog.failing = "column" THEN [err |-> "column", createTableSQL |-> NoSQL]
     ELSE IF opt.err # "" THEN [err |-> opt.err, createTableSQL |-> NoSQL]
     ELSE [err |-> "",
           createTableSQL |->
             [columns |-> columnMetas, keys |-> pk.keysMeta,
              collate |-> collation.tableCollation, option |-> opt.option,
              comment |-> catalog.tableComment]]

IdleDDL == [pc |-> "idle"]

\* the call returned before reverserOracleTablePKToMySQL was reached
PKNotCalled == [err |-> "not called", keysMeta |-> <<>>, pkArr |-> <<>>]

\* one call of GenCreateTableSQL
CallGenCreateTableSQL(t, catalog) ==
  /\ ddl.pc = "idle"
  /\ ddl' = [pc |-> "returned", t |-> t, catalog |-> catalog,
             pk |-> IF TableCollation(t).err = "" /\ catalog.failing # "index"
                    THEN reverserOracleTablePKToMySQL(catalog.primaryKeyMap)
                    ELSE PKNotCalled,
             ret |-> GenCreateTableSQL(t, catalog)]
  /\ UNCHANGED <<storeVars, gen, col, ck>>

\* ---- reverserOracleTableCKToMySQL
\* A search condition is the sequence of its blank-separated words
\* (strings.Fields): <<"A", "IS", "NOT", "NULL", "AND", "C", ">", "0">>.
\* strings.EqualFold(val, "AND") || strings.EqualFold(val, "OR")
IsConnector(val) == ToUpper(val) \in {"AND", "OR"}

\* the regexp \s+(?i:AND)\s+|\s+(?i:OR)\s+ : a connector between two words
MatchesAndOr(words) == \E i \in 2..(Len(words) - 1) : IsConnector(words[i])

\* the regexps (^.*)(?i:IS NOT NULL) and (.*)(?i:IS NOT NULL)
MatchesIsNotNull(words) ==
  \E i \in 1..(Len(words) - 2) :
    /\ ToUpper(words[i]) = "IS"
    /\ ToUpper(words[i + 1]) = "NOT"
    /\ ToUpper(words[i + 2]) = "NULL"

\* checkArray[k]: the words from the k-th connector up to the next one
\* (k = 0: the words before the first connector)
CheckArrayEntry(strArray, k) ==
  LET at == {p \in 1..Len(strArray) :
               Cardinality({i \in 1..p : IsConnector(strArray[i])}) = k}
  IN IF at = {} THEN <<>>
     ELSE SubSeq(strArray, CHOOSE p \in at : \A q \in at : p <= q,
                 CHOOSE p \in at : \A q \in at : p >= q)

\* an entry of checkArray as it goes into constraintArray
ConstraintArrayEntry(v) == IF MatchesIsNotNull(v) THEN <<>> ELSE v

RECURSIVE JoinEntries(_, _, _)
\* constraintArray joined and split into words again, entries from..to
JoinEntries(strArray, from, to) ==
  IF from > to THEN <<>>
  ELSE ConstraintArrayEntry(CheckArrayEntry(strArray, from))
         \o JoinEntries(strArray, from + 1, to)

\* d before its first and last word are looked at
ConstraintWords(strArray) ==
  JoinEntries(strArray, 0, Cardinality({i \in 1..Len(strArray) : IsConnector(strArray[i])}))

\* one row of checkKeyMap: the constraints it adds, or the runtime panic of
\* d[0] and d[len(d)-1] on an empty d
CheckKeyRow(rowCKCol) ==
  LET s == rowCKCol.SEARCH_CONDITION
      name == ToUpper(rowCKCol.CONSTRAINT_NAME)
  IN IF ~MatchesAndOr(s)
     THEN [panic |-> FALSE,
           keysMeta |-> IF ~MatchesIsNotNull(s) THEN <<[name |-> name, check |-> s]>> ELSE <<>>]
     ELSE LET d0 == ConstraintWords(s)
              d1 == IF d0 # <<>> /\ IsConnector(d0[1]) THEN Tail(d0) ELSE d0
              d2 == IF d1 # <<>> /\ IsConnector(d1[Len(d1)])
                    THEN SubSeq(d1, 1, Len(d1) - 1) ELSE d1
          IN IF d0 = <<>> \/ d1 = <<>>
             THEN [panic |-> TRUE, keysMeta |-> <<>>]
             ELSE [panic |-> FALSE, keysMeta |-> <<[name |-> name, check |-> d2]>>]

RECURSIVE CheckKeyRows(_, _)
\* the loop over checkKeyMap from row i on
CheckKeyRows(checkKeyMap, i) ==
  IF i > Len(checkKeyMap) THEN [panic |-> FALSE, keysMeta |-> <<>>]
  ELSE LET row == CheckKeyRow(checkKeyMap[i])
           rest == CheckKeyRows(checkKeyMap, i + 1)
       IN IF row.panic \/ rest.panic THEN [panic |-> TRUE, keysMeta |-> <<>>]
          ELSE [panic |-> FALSE, keysMeta |-> row.keysMeta \o rest.keysMeta]

reverserOracleTableCKToMySQL(checkKeyMap) == CheckKeyRows(checkKeyMap, 1)

\* the clauses and connectors search conditions are built from
NotNullClauses == {<<"A", "IS", "NOT", "NULL">>, <<"B", "is", "not", "null">>}
OtherClauses == {<<"C", ">", "0">>, <<"D", "IN", "(1,2)">>}
Connectors == {"AND", "or"}

RECURSIVE ConditionWords(_, _, _)
\* the words of the condition clause[i] conn[i] clause[i+1] ...
ConditionWords(clauses, conns, i) ==
  IF i > Len(clauses) THEN <<>>
  ELSE clauses[i] \o (IF i < Len(clauses) THEN <<conns[i]>> ELSE <<>>)
                  \o ConditionWords(clauses, conns, i + 1)

\* check constraints of 1..MaxClauses clauses, by their clauses and connectors
CheckConditions ==
  UNION {[clauses : [1..n -> NotNullClauses \cup OtherClauses],
          conns : [1..(n - 1) -> Connectors]] : n \in 1..MaxClauses}

CheckKeyMaps ==
  UNION {[1..n -> CheckConditions] : n \in 0..MaxCheckKeys}

IdleCK == [pc |-> "idle"]

\* one call of reverserOracleTableCKToMySQL on the rows the catalog returns
CallReverserOracleTableCKToMySQL(conditions) ==
  /\ ck.pc = "idle"
  /\ LET checkKeyMap == [i \in 1..Len(conditions) |->
                           [CONSTRAINT_NAME |-> "ck_emp",
                            SEARCH_CONDITION |->
                              ConditionWords(conditions[i].clauses, conditions[i].conns, 1)]]
     IN ck' = [pc |-> "returned", conditions |-> conditions, checkKeyMap |-> checkKeyMap,
               ret |-> reverserOracleTableCKToMySQL(checkKeyMap)]
  /\ UNCHANGED <<storeVars, gen, ddl, col>>

\* ---- ReverseOracleTableColumnMapRule and the data type rules
\* A column type text is <<name>>, <<name, p>> or <<name, p, s>> for NAME,
\* NAME(p) and NAME(p,s); <<>> is the empty string.
\* strings.ToUpper on a type text
ToUpperType(type) == IF type = <<>> THEN <<>> ELSE <<ToUpper(type[1])>> \o Tail(type)

\* the NUMBER case with every precision bound moved up by one
NumberColumnTypeShifted(dataPrecision, dataScale) ==
  LET originColumnType ==
        IF dataScale > 0 THEN <<"NUMBER", dataPrecision, dataScale>>
        ELSE IF dataPrecision = 0 THEN <<"NUMBER">> ELSE <<"NUMBER", dataPrecision>>
  IN [originColumnType |-> IF dataScale < 0 THEN <<>> ELSE originColumnType,
      buildInColumnType |->
        IF dataScale < 0 THEN <<>>
        ELSE IF dataScale > 0 THEN <<"DECIMAL", dataPrecision, dataScale>>
        ELSE IF dataPrecision = 0 THEN <<"DECIMAL", 65, 30>>
        ELSE IF dataPrecision >= 1 /\ dataPrecision < 4 THEN <<"TINYINT">>
        ELSE IF dataPrecision >= 4 /\ dataPrecision < 6 THEN <<"SMALLINT">>
        ELSE IF dataPrecision >= 6 /\ dataPrecision < 10 THEN <<"INT">>
        ELSE IF dataPrecision >= 10 /\ dataPrecision < 20 THEN <<"BIGINT">>
        ELSE IF dataPrecision >= 20 /\ dataPrecision <= 39 THEN <<"DECIMAL", dataPrecision>>
        ELSE <<"DECIMAL", dataPrecision, 4>>]

\* case "NUMBER" of ReverseOracleTableColumnMapRule: the Oracle type text and
\* the built-in target type; with a negative scale no case of the switch on
\* the scale is taken and both stay empty
NumberColumnType(dataPrecision, dataScale) ==
  IF dataScale > 0
  THEN [originColumnType |-> <<"NUMBER", dataPrecision, dataScale>>,
        buildInColumnType |-> <<"DECIMAL", dataPrecision, dataScale>>]
  ELSE IF dataScale = 0
  THEN IF dataPrecision = 0 /\ dataScale = 0
       THEN [originColumnType |-> <<"NUMBER">>, buildInColumnType |-> <<"DECIMAL", 65, 30>>]
       ELSE IF dataPrecision >= 1 /\ dataPrecision < 3
       THEN [originColumnType |-> <<"NUMBER", dataPrecision>>, buildInColumnType |-> <<"TINYINT">>]
       ELSE IF dataPrecision >= 3 /\ dataPrecision < 5
       THEN [originColumnType |-> <<"NUMBER", dataPrecision>>, buildInColumnType |-> <<"SMALLINT">>]
       ELSE IF dataPrecision >= 5 /\ dataPrecision < 9
       THEN [originColumnType |-> <<"NUMBER", dataPrecision>>, buildInColumnType |-> <<"INT">>]
       ELSE IF dataPrecision >= 9 /\ dataPrecision < 19
       THEN [originColumnType |-> <<"NUMBER", dataPrecision>>, buildInColumnType |-> <<"BIGINT">>]
       ELSE IF dataPrecision >= 19 /\ dataPrecision <= 38
       THEN [originColumnType |-> <<"NUMBER", dataPrecision>>,
             buildInColumnType |-> <<"DECIMAL", dataPrecision>>]
       ELSE [originColumnType |-> <<"NUMBER", dataPrecision>>,
             buildInColumnType |-> <<"DECIMAL", dataPrecision, 4>>]
  ELSE [originColumnType |-> <<>>, buildInColumnType |-> <<>>]

\* the target of the first rule of a slice among those at the positions hits
\* (the rules that match), else the built-in type
FirstRuleTarget(slice, hits, buildInColumnType) ==
  IF hits = {} THEN buildInColumnType
  ELSE slice[CHOOSE i \in hits : \A j \in hits : i <= j].TargetColumnType

loadDataTypeRuleOnlyUsingTable(originColumnType, buildInColumnType, tableDataTypeMapSlice) ==
  LET match(tbl) == /\ ToUpperType(tbl.SourceColumnType) = ToUpperType(originColumnType)
                    /\ tbl.TargetColumnType # <<>>
  IN FirstRuleTarget(tableDataTypeMapSlice,
                     {i \in 1..Len(tableDataTypeMapSlice) : match(tableDataTypeMapSlice[i])},
                     buildInColumnType)

loadDataTypeRuleOnlyUsingSchema(originColumnType, buildInColumnType, schemaDataTypeMapSlice) ==
  LET match(tbl) == /\ ToUpperType(tbl.SourceColumnType) = ToUpperType(originColumnType)
                    /\ tbl.TargetColumnType # <<>>
  IN FirstRuleTarget(schemaDataTypeMapSlice,
                     {i \in 1..Len(schemaDataTypeMapSlice) : match(schemaDataTypeMapSlice[i])},
                     buildInColumnType)

\* a combination of the two scopes that asks the schema rules first
SchemaRuleBeforeTableRule(originColumnType, buildInColumnType, tableDataTypeMapSlice, schemaDataTypeMapSlice) ==
  LET customTableDataType ==
        loadDataTypeRuleOnlyUsingTable(originColumnType, buildInColumnType,
                                       tableDataTypeMapSlice)
      customSchemaDataType ==
        loadDataTypeRuleOnlyUsingSchema(originColumnType, buildInColumnType,
                                        schemaDataTypeMapSlice)
  IN IF customSchemaDataType # buildInColumnType THEN customSchemaDataType
     ELSE customTableDataType

loadDataTypeRuleUsingTableAndSchema(originColumnType, buildInColumnType, tableDataTypeMapSlice, schemaDataTypeMapSlice) ==
  LET customTableDataType ==
        loadDataTypeRuleOnlyUsingTable(originColumnType, buildInColumnType,
                                       tableDataTypeMapSlice)
      customSchemaDataType ==
        loadDataTypeRuleOnlyUsingSchema(originColumnType, buildInColumnType,
                                        schemaDataTypeMapSlice)
  IN IF customTableDataType = buildInColumnType /\ customSchemaDataType # buildInColumnType
     THEN customSchemaDataType
     ELSE IF customTableDataType # buildInColumnType /\ customSchemaDataType = buildInColumnType
     THEN customTableDataType
     ELSE IF customTableDataType # buildInColumnType /\ customSchemaDataType # buildInColumnType
     THEN customTableDataType
     ELSE buildInColumnType

loadDataTypeRuleUsingTableOrSchema(originColumnType, buildInColumnType, tableDataTypeMapSlice, schemaDataTypeMapSlice) ==
  IF Len(tableDataTypeMapSlice) # 0 /\ Len(schemaDataTypeMapSlice) = 0
  THEN loadDataTypeRuleOnlyUsingTable(originColumnType, buildInColumnType,
                                      tableDataTypeMapSlice)
  ELSE IF Len(tableDataTypeMapSlice) # 0 /\ Len(schemaDataTypeMapSlice) # 0
  THEN loadDataTypeRuleUsingTableAndSchema(originColumnType, buildInColumnType,
                                           tableDataTypeMapSlice, schemaDataTypeMapSlice)
  ELSE IF Len(tableDataTypeMapSlice) = 0 /\ Len(schemaDataTypeMapSlice) # 0
  THEN loadDataTypeRuleOnlyUsingSchema(originColumnType, buildInColumnType,
                                       schemaDataTypeMapSlice)
  ELSE buildInColumnType

loadDataTypeRuleOnlyUsingColumn(columnName, originColumnType, buildInColumnType, columnDataTypeMapSlice) ==
  LET match(c) == /\ ToUpper(c.SourceColumnName) = ToUpper(columnName)
                  /\ ToUpperType(c.SourceColumnType) = ToUpperType(originColumnType)
                  /\ c.TargetColumnType # <<>>
  IN FirstRuleTarget(columnDataTypeMapSlice,
                     {i \in 1..Len(columnDataTypeMapSlice) : match(columnDataTypeMapSlice[i])},
                     buildInColumnType)

changeOracleTableColumnType(columnName, originColumnType, buildInColumnType, columnDataTypeMapSlice, tableDataTypeMapSlice, schemaDataTypeMapSlice) ==
  IF Len(columnDataTypeMapSlice) = 0
  THEN loadDataTypeRuleUsingTableOrSchema(originColumnType, buildInColumnType,
                                          tableDataTypeMapSlice, schemaDataTypeMapSlice)
  ELSE LET columnTypeFromColumn ==
             loadDataTypeRuleOnlyUsingColumn(columnName, originColumnType,
                                             buildInColumnType, columnDataTypeMapSlice)
           columnTypeFromOther ==
             loadDataTypeRuleUsingTableOrSchema(originColumnType, buildInColumnType,
                                                tableDataTypeMapSlice,
                                                schemaDataTypeMapSlice)
       IN IF columnTypeFromColumn # buildInColumnType /\ columnTypeFromOther = buildInColumnType
          THEN ToUpperType(columnTypeFromColumn)
          ELSE IF columnTypeFromColumn # buildInColumnType
                  /\ columnTypeFromOther # buildInColumnType
          THEN ToUpperType(columnTypeFromColumn)
          ELSE IF columnTypeFromColumn = buildInColumnType
                  /\ columnTypeFromOther # buildInColumnType
          THEN ToUpperType(columnTypeFromOther)
          ELSE ToUpperType(buildInColumnType)

\* sequences over a set of rules, MaxRules long at most
RuleSlices(rules) == UNION {[1..n -> rules] : n \in 0..MaxRules}

\* the rules tried on the column PRICE NUMBER(10), whose built-in type is
\* BIGINT: per scope a rule for the column's type, written in lower case,
\* with no target, with the built-in type or with a type of the scope's own,
\* and rules for another column or another type
ColumnRules ==
  {[SourceColumnName |-> "price", SourceColumnType |-> <<"number", 10>>, TargetColumnType |-> t] :
      t \in {<<>>, <<"BIGINT">>, <<"varchar", 20>>}}
  \cup {[SourceColumnName |-> "QTY", SourceColumnType |-> <<"number", 10>>,
         TargetColumnType |-> <<"varchar", 20>>]}

TableRules ==
  {[SourceColumnType |-> <<"number", 10>>, TargetColumnType |-> t] :
      t \in {<<>>, <<"BIGINT">>, <<"decimal", 10>>}}
  \cup {[SourceColumnType |-> <<"NUMBER", 5>>, TargetColumnType |-> <<"decimal", 10>>]}

SchemaRules ==
  {[SourceColumnType |-> <<"number", 10>>, TargetColumnType |-> t] :
      t \in {<<>>, <<"BIGINT">>, <<"int">>}}

\* rules that are for another column and for a type no NUMBER column has
OtherColumnRules ==
  {[SourceColumnName |-> "QTY", SourceColumnType |-> <<"FLOAT">>,
    TargetColumnType |-> <<"varchar", 20>>]}

OtherTypeRules == {[SourceColumnType |-> <<"FLOAT">>, TargetColumnType |-> <<"double">>]}

\* DATA_SCALE values of NUMBER columns
DataScales == {-2, 0, 2}

IdleCol == [pc |-> "idle"]

\* A comment text is a sequence of its pieces, the quote characters being
\* pieces of their own: <<"\"", "retail", "\"">> is the text "retail" with
\* its double quotes; <<>> is the empty string.
\* strings.Replace(comments, "\"", "'", -1)
ReplaceDoubleQuotes(comments) ==
  [i \in 1..Len(comments) |-> IF comments[i] = "\"" THEN "'" ELSE comments[i]]

\* regexp.MatchString("'(.*)'", comments): two single quotes occur
MatchesSingleQuoted(comments) ==
  \E i, j \in 1..Len(comments) : i < j /\ comments[i] = "'" /\ comments[j] = "'"

\* a comment that is wrapped in single quotes whatever it holds
CommentAlwaysSingleQuoted(comments) ==
  IF comments = <<>> THEN <<>> ELSE <<"'">> \o comments \o <<"'">>

\* the comment literal of generateOracleTableColumnMeta
ColumnComment(comments) ==
  IF comments = <<>> THEN <<>>
  ELSE LET replaced == IF \E i \in 1..Len(comments) : comments[i] = "\""
                       THEN ReplaceDoubleQuotes(comments) ELSE comments
       IN IF MatchesSingleQuoted(replaced)
          THEN <<"\"">> \o replaced \o <<"\"">>
          ELSE <<"'">> \o replaced \o <<"'">>

loadDataDefaultValueRule(defaultValue, defaultValueMapSlice) ==
  LET hits == {i \in 1..Len(defaultValueMapSlice) :
                 /\ ToUpper(defaultValueMapSlice[i].SourceDefaultValue) = ToUpper(defaultValue)
                 /\ defaultValueMapSlice[i].TargetDefaultValue # ""}
  IN IF hits = {} THEN defaultValue
     ELSE defaultValueMapSlice[CHOOSE i \in hits : \A j \in hits : i <= j].TargetDefaultValue

\* the column fragment `name` TYPE [NOT NULL] [DEFAULT x] [COMMENT c] by its
\* parts; an empty part has no clause in the text
generateOracleTableColumnMeta(columnName, columnType, dataNullable, comments, defaultValue, defaultValueMapSlice) ==
  LET nullable == IF dataNullable = "Y" THEN "NULL" ELSE "NOT NULL"
      comment == ColumnComment(comments)
      dataDefault == IF defaultValue # ""
                     THEN loadDataDefaultValueRule(defaultValue, defaultValueMapSlice)
                     ELSE defaultValue
  IN [name |-> columnName, type |-> columnType,
      nullable |-> IF nullable = "NULL" THEN "" ELSE nullable,
      default |-> dataDefault, comment |-> comment]

\* the comments, defaults and default-value rules columns are tried with
ColumnComments ==
  {<<>>, <<"retail">>, <<"\"", "retail", "\"">>, <<"buyer", "'", "s">>, <<"'", "retail", "'">>}

DataDefaults == {"", "0", "sysdate"}

DefaultValueMapSlices ==
  {<<>>, <<[SourceDefaultValue |-> "SYSDATE", TargetDefaultValue |-> "now()"]>>,
   <<[SourceDefaultValue |-> "SYSDATE", TargetDefaultValue |-> ""]>>}

\* ReverseOracleTableColumnMapRule on a NUMBER column
CallReverseOracleTableColumnMapRule(columnName, dataType, dataPrecision, dataScale, columnDataTypeMapSlice, tableDataTypeMapSlice, schemaDataTypeMapSlice, dataNullable, comments, dataDefault, defaultValueMapSlice) ==
  /\ col.pc = "idle"
  /\ ToUpper(dataType) = "NUMBER"
  /\ LET types == NumberColumnType(dataPrecision, dataScale)
         modifyColumnType ==
           changeOracleTableColumnType(columnName, types.originColumnType,
                                       types.buildInColumnType,
                                       columnDataTypeMapSlice,
                                       tableDataTypeMapSlice,
                                       schemaDataTypeMapSlice)
     IN col' = [pc |-> "returned", columnName |-> columnName, dataType |-> dataType,
                dataPrecision |-> dataPrecision, dataScale |-> dataScale,
                columnDataTypeMapSlice |-> columnDataTypeMapSlice,
                tableDataTypeMapSlice |-> tableDataTypeMapSlice,
                schemaDataTypeMapSlice |-> schemaDataTypeMapSlice,
                dataNullable |-> dataNullable, comments |-> comments,
                dataDefault |-> dataDefault,
                defaultValueMapSlice |-> defaultValueMapSlice,
                originColumnType |-> types.originColumnType,
                buildInColumnType |-> types.buildInColumnType,
                modifyColumnType |-> modifyColumnType,
                columnMeta |->
                  generateOracleTableColumnMeta(columnName, modifyColumnType,
                                                dataNullable, comments, dataDefault,
                                                defaultValueMapSlice)]
  /\ UNCHANGED <<storeVars, gen, ddl, ck>>

\* ------------------------------------------------------------ specification
\* statistics of 0 rows are those of an empty table
Init ==
  /\ waitSyncMeta = {}
  /\ fullSyncMeta = {}
  /\ oraTasks = [t \in TaskNames |-> -1]
  /\ oraStatRows \in [UpperTables -> {0, 1}]
  /\ oraChunkCount \in [UpperTables -> 0..MaxChunks]
  /\ \A t \in UpperTables : oraStatRows[t] = 0 => oraChunkCount[t] = 0
  /\ oraStatRows["T2"] = 1 /\ oraChunkCount["T2"] = 1
  /\ globalSCN \in 1..MaxSCN
  /\ insertBatchSize \in 1..MaxBatch
  /\ run = IdleRun
  /\ runs = 0
  /\ workers = [w \in 1..NumWorkers |-> IdleWorker]
  /\ judge = IdleJudge
  /\ incrementSyncMeta = {}
  /\ gen = IdleGen
  /\ ddl = IdleDDL
  /\ col = IdleCol
  /\ ck = IdleCK

\* the caller has taken the planner's result, or the process was restarted
ReturnToCaller ==
  /\ run.pc \in Ended
  /\ run' = IdleRun
  /\ UNCHANGED <<waitSyncMeta, fullSyncMeta, oraTasks, oraVars, otherVars, runs, workers>>

PlannerStep ==
  \/ ReadStatistics
  \/ ZeroRowsCreate
  \/ ZeroRowsUpdate
  \/ TaskCountChunks
  \/ TaskDropLeftover
  \/ TaskCreate
  \/ CreateChunksByRowID
  \/ ListChunks
  \/ EmptyChunksCreate
  \/ InsertAllChunks
  \/ InsertChunkBatch
  \/ UpdateWait
  \/ CloseOracleChunkTask
  \/ Crash
  \/ ReturnToCaller

Planner(modes) ==
  \/ \E s \in SchemaNames, t \in UpperTables, id \in WorkerIDs, m \in modes :
       StartRun(s, t, id, m)
  \/ PlannerStep

InitWait(modes) ==
  \E s \in SchemaNames, ts \in TableLists, m \in modes, failAt \in 0..MaxInitTables :
    InitWaitSyncTableMetaRecord(s, ts, m, failAt)

Reset ==
  \/ \E s \in SchemaNames, t \in TableNames, m \in SyncModes :
       DeleteWaitSyncTableMetaRecord(s, t, m)
  \/ TruncateFullSyncTableMetaRecord

Worker ==
  \/ \E w \in 1..NumWorkers, s \in SchemaNames, t \in TableNames, m \in SyncModes :
       \E sql \in RowidSQLArgs(s, t) : TxDelete(w, s, t, sql, m)
  \/ \E w \in 1..NumWorkers : TxUpdate(w)
  \/ \E w \in 1..NumWorkers : TxCommit(w)
  \/ \E w \in 1..NumWorkers : TxRollback(w)

\* chunk planning with crashes, failures and administrative resets
NextPlan == InitWait(SyncModes) \/ Planner(SyncModes) \/ Reset

SpecPlan == Init /\ [][NextPlan]_vars

\* chunk planning of one sync mode followed by the full-sync workers
NextSync == InitWait({"FULL"}) \/ Planner({"FULL"}) \/ Worker

\* the workers are followed on tables of at most MaxSyncChunks chunks
InitSync ==
  /\ Init
  /\ oraChunkCount["T1"] <= MaxSyncChunks

SpecSync == InitSync /\ [][NextSync]_vars

\* workers that each clear a chunk read from full_sync_meta, no two the same
ChunkWorker ==
  \/ \E w \in 1..NumWorkers, s \in SchemaNames, t \in UpperTables, m \in SyncModes :
       \E sql \in GetFullSyncMetaRowIDRecord(s, t) : TxDelete(w, s, t, sql, m)
  \/ \E w \in 1..NumWorkers : TxUpdate(w)
  \/ \E w \in 1..NumWorkers : TxCommit(w)
  \/ \E w \in 1..NumWorkers : TxRollback(w)

NextWorkers == InitWait({"FULL"}) \/ Planner({"FULL"}) \/ ChunkWorker

SpecWorkers == InitSync /\ [][NextWorkers]_vars

\* the resume check at start-up, between planner runs and resets
NextJudge ==
  \/ InitWait({"FULL"})
  \/ Planner({"FULL"})
  \/ TruncateFullSyncTableMetaRecord
  \/ \E s \in SchemaNames, metas \in MetaLists : Judge(s, metas)
  \/ JudgeReturn

SpecJudge == Init /\ [][NextJudge]_vars

\* every operation on wait_sync_meta: InitWait, chunk planning, the workers'
\* transactions and the administrative resets
NextStore == InitWait({"FULL"}) \/ Planner({"FULL"}) \/ Reset \/ Worker

SpecStore == InitSync /\ [][NextStore]_vars

\* full sync of the ALL mode followed by the switch to increment mode
NextIncrement ==
  InitWait({"ALL"}) \/ Planner({"ALL"}) \/ ChunkWorker \/ InitIncrement({"ALL"})

SpecIncrement == InitSync /\ [][NextIncrement]_vars

\* ModifyWaitAndFullSyncTableMetaRecord called with any predicate, one call
\* at a time
OneWorker ==
  \/ \E s \in SchemaNames, t \in TableNames, m \in SyncModes :
       \E sql \in RowidSQLArgs(s, t) : TxDelete(1, s, t, sql, m)
  \/ TxUpdate(1)
  \/ TxCommit(1)
  \/ TxRollback(1)

\* tables registered in both sync modes, planned in the ALL mode and cleared
\* call by call, next to the switch to increment mode
NextModify ==
  InitWait(SyncModes) \/ Planner({"ALL"}) \/ OneWorker \/ InitIncrement({"ALL"})

SpecModify == InitSync /\ [][NextModify]_vars

\* the schema reverser does not touch the sync-metadata store
InitReverse ==
  /\ Init
  /\ oraStatRows["T1"] = 1 /\ oraChunkCount["T1"] = 1
  /\ insertBatchSize = 1

Producer == ProducerSend \/ ProducerClose

PoolWorker(w) == WorkerReceive(w) \/ WorkerSend(w) \/ WorkerExit(w)

Collector == CollectorAppend \/ CollectorDrained

GenMain(threads) ==
  \/ \E ts \in ExporterTableSlices, n \in threads : GenStart(ts, n)
  \/ \E ts \in ExporterTableSlices, n \in threads : GenCatalogError(ts, n)
  \/ SpawnWorker
  \/ CloseChT
  \/ GenReturn

\* one GenOracleToMySQLTableList call with at least one worker
NextGen ==
  GenMain(1..MaxThreads) \/ Producer \/ (\E w \in 1..MaxThreads : PoolWorker(w)) \/ Collector

SpecGen == InitReverse /\ [][NextGen]_vars

\* the Go scheduler runs every goroutine that can take a step
SpecGenFair ==
  /\ SpecGen
  /\ WF_vars(GenMain(1..MaxThreads))
  /\ WF_vars(Producer)
  /\ \A w \in 1..MaxThreads : WF_vars(PoolWorker(w))
  /\ WF_vars(Collector)

\* one GenOracleToMySQLTableList call with any configured thread count
NextGenAnyThreads ==
  GenMain(0..MaxThreads) \/ Producer \/ (\E w \in 1..MaxThreads : PoolWorker(w)) \/ Collector

SpecGenAnyThreads ==
  /\ InitReverse /\ [][NextGenAnyThreads]_vars
  /\ WF_vars(GenMain(0..MaxThreads))
  /\ WF_vars(Producer)
  /\ \A w \in 1..MaxThreads : WF_vars(PoolWorker(w))
  /\ WF_vars(Collector)

\* GenCreateTableSQL on every Table and catalog answer
NextDDL ==
  /\ ddl.pc = "idle"
  /\ \E t \in Tables, catalog \in Catalogs : CallGenCreateTableSQL(t, catalog)

SpecDDL == InitReverse /\ [][NextDDL]_vars

\* NUMBER columns of every precision and scale under rules that are for
\* other columns and types
NextNumber ==
  /\ col.pc = "idle"
  /\ \E dataType \in {"NUMBER", "number"}, p \in 0..MaxPrecision, scale \in DataScales,
        cs \in RuleSlices(OtherColumnRules), ts \in RuleSlices(OtherTypeRules),
        ss \in RuleSlices(OtherTypeRules) :
       CallReverseOracleTableColumnMapRule("PRICE", dataType, p, scale, cs, ts, ss,
                                           "Y", <<>>, "", <<>>)

SpecNumber == InitReverse /\ [][NextNumber]_vars

\* the column PRICE NUMBER(10) under every combination of rule slices
NextRule ==
  /\ col.pc = "idle"
  /\ \E cs \in RuleSlices(ColumnRules), ts \in RuleSlices(TableRules),
        ss \in RuleSlices(SchemaRules) :
       CallReverseOracleTableColumnMapRule("PRICE", "NUMBER", 10, 0, cs, ts, ss,
                                           "Y", <<>>, "", <<>>)

SpecRule == InitReverse /\ [][NextRule]_vars

\* the column PRICE NUMBER(10) or NUMBER(10,2) with every nullability,
\* comment, default and default-value rule
NextColumnMeta ==
  /\ col.pc = "idle"
  /\ \E scale \in {0, 2}, cs \in RuleSlices(OtherColumnRules), nullable \in {"Y", "N"},
        comments \in ColumnComments, default \in DataDefaults,
        dvs \in DefaultValueMapSlices :
       CallReverseOracleTableColumnMapRule("PRICE", "NUMBER", 10, scale, cs, <<>>, <<>>,
                                           nullable, comments, default, dvs)

SpecColumnMeta == InitReverse /\ [][NextColumnMeta]_vars

\* reverserOracleTableCKToMySQL on every list of check constraints
NextCK ==
  /\ ck.pc = "idle"
  /\ \E conditions \in CheckKeyMaps : CallReverserOracleTableCKToMySQL(conditions)

SpecCK == InitReverse /\ [][NextCK]_vars

\* ================================================================== claims
\* the wait_sync_meta key the planner run works on
RunKey == <<ToUpper(run.schemaName), ToUpper(run.tableName), run.syncMode>>

\* the table of the planner run, as Oracle and the meta tables name it
RunTable == ToUpper(run.tableName)

\* C1: when InitWaitAndFullSyncMetaRecord returns successfully for a table
\* that had no FullSyncMeta rows and for which Oracle returned K >= 1 ROWID
\* chunks, the table has K FullSyncMeta rows and full_split_times = K.
C1_PlannedCountsEqualChunks ==
  [][(/\ run.pc = "closeTask" /\ run'.pc = "done"
      /\ run.pre = 0 /\ Len(run.res) >= 1)
     => /\ Len(run.res) = oraChunkCount[RunTable]
        /\ Cardinality({f \in fullSyncMeta' : f.schema = RunKey[1] /\ f.table = RunKey[2]})
             = Len(run.res)
        /\ \E w \in waitSyncMeta' : WaitKey(w) = RunKey
        /\ \A w \in waitSyncMeta' : WaitKey(w) = RunKey => w.split = Len(run.res)]_vars

\* a successful planning of a table of more chunks than one insert batch holds
C1_Witness ==
  /\ run.pc = "done" /\ run.pre = 0
  /\ oraStatRows[RunTable] # 0
  /\ oraChunkCount[RunTable] > insertBatchSize
  /\ GetFullSyncMetaRecordCounts(run.schemaName, run.tableName) = oraChunkCount[RunTable]
  /\ \E w \in waitSyncMeta : WaitKey(w) = RunKey /\ w.split = oraChunkCount[RunTable]

\* the planner run is in one of the two zero cases: statistics of 0 rows, or
\* no chunk listed for the task
ZeroCase ==
  \/ run.pc \in {"zeroCreate", "zeroUpdate"}
  \/ run.pc \in {"emptyCreate", "update", "closeTask"} /\ run.res = <<>>

\* C4: in the zero cases chunk planning creates exactly one FullSyncMeta row,
\* the full-table select of the table, and moves the WaitSyncMeta row from
\* (-1,-1) to (global SCN, 1); planning never writes full_split_times = 0.
C4_ZeroCaseOneFullTableRow ==
  [][/\ (run.pc \in {"zeroCreate", "emptyCreate"} /\ fullSyncMeta' # fullSyncMeta)
        => \E f \in fullSyncMeta' :
             /\ f \notin fullSyncMeta
             /\ fullSyncMeta' = fullSyncMeta \cup {f}
             /\ f.schema = RunKey[1] /\ f.table = RunKey[2]
             /\ f.sql[3] = 0 /\ f.sql[4] = "upper"
             /\ ToUpper(f.sql[1]) = RunKey[1] /\ ToUpper(f.sql[2]) = RunKey[2]
     /\ (run.pc \in {"zeroUpdate", "update"} /\ ZeroCase /\ run'.pc \in {"done", "closeTask"})
        => /\ \E old \in waitSyncMeta :
                /\ WaitKey(old) = RunKey
                /\ old.scn = -1 /\ old.split = -1
                /\ waitSyncMeta' = (waitSyncMeta \ {old}) \cup
                      {[old EXCEPT !.scn = globalSCN, !.split = 1, !.part = run.isPartition]}
           /\ Cardinality({f \in fullSyncMeta' : f.schema = RunKey[1] /\ f.table = RunKey[2]}) = 1
     /\ run.pc \in InFlight => \A w \in waitSyncMeta' \ waitSyncMeta : w.split # 0]_vars

\* no chunk was listed: the full-table row is written and WaitSyncMeta updated
C4_Witness ==
  /\ run.pc = "closeTask" /\ run.res = <<>>
  /\ \E f \in fullSyncMeta :
       /\ FullRowsOf(RunKey[1], RunKey[2]) = {f}
       /\ f.sql[3] = 0
  /\ \E w \in waitSyncMeta : WaitKey(w) = RunKey /\ w.scn = globalSCN /\ w.split = 1

\* C5: GetOracleTableChunksByRowID hands every Create at most insertBatchSize
\* rows, and no Create receives a row that an earlier Create of the same call
\* already received.
C5_BatchesAtMostSizeAndOnce ==
  /\ run.pc = "insertAll" => Len(FullMetas) <= insertBatchSize
  /\ run.pc = "insertBatch" =>
       /\ Len(NextFullMetaBatch) <= insertBatchSize
       /\ \A i \in 1..Len(NextFullMetaBatch) :
            NextFullMetaBatch[i] \notin Range(run.fullMetaBatch)

\* C6: a planner run never fails because its parallel-execute task exists.
C6_NeverFailsOnExistingTask == run.err # "task_exists"

\* the rows chunk planning of a table is to leave in full_sync_meta
CompleteChunkSet(upperTable) ==
  IF oraStatRows[upperTable] = 0 \/ oraChunkCount[upperTable] = 0
  THEN \E f \in FullRowsOf("S1", upperTable) : f.sql[3] = 0
  ELSE \A i \in 1..oraChunkCount[upperTable] :
         \E f \in FullRowsOf("S1", upperTable) : f.sql[3] = i

\* C7: a planner run on a K-chunk table that starts from some but not all of
\* the K rows (left by an interrupted run) and is not itself interrupted ends
\* with exactly the K chunk rows and full_split_times = K.
C7_ReplanRecreatesAllChunks ==
  (/\ run.pc = "done" \/ (run.pc = "failed" /\ run.err = "duplicate_entry")
   /\ oraStatRows[RunTable] # 0
   /\ 0 < run.pre /\ run.pre < oraChunkCount[RunTable])
  => /\ CompleteChunkSet(RunTable)
     /\ GetFullSyncMetaRecordCounts(run.schemaName, run.tableName) = oraChunkCount[RunTable]
     /\ \E w \in waitSyncMeta : WaitKey(w) = RunKey /\ w.split = oraChunkCount[RunTable]

\* C2: a worker step changes the committed meta tables only when it commits;
\* a commit of a call that matched a FullSyncMeta row of a planned table
\* removes exactly that one row and lowers full_split_times of the table's
\* WaitSyncMeta row by exactly one, in the same step; a rollback keeps nothing.
C2_DeleteChunkAtomic ==
  [][\A w \in 1..NumWorkers :
       workers'[w] # workers[w] =>
         IF /\ workers[w].pc = "updated" /\ workers'[w].pc = "idle"
            /\ (fullSyncMeta' # fullSyncMeta \/ waitSyncMeta' # waitSyncMeta)
         THEN workers[w].del # {} =>
                /\ Cardinality(workers[w].del) = 1
                /\ workers[w].del \subseteq fullSyncMeta
                /\ fullSyncMeta' = fullSyncMeta \ workers[w].del
                /\ \E old \in waitSyncMeta :
                     /\ WaitKey(old) = <<workers[w].schema, workers[w].table, workers[w].mode>>
                     /\ old.scn > -1
                     /\ waitSyncMeta' = (waitSyncMeta \ {old}) \cup
                                           {[old EXCEPT !.split = old.split - 1]}
         ELSE fullSyncMeta' = fullSyncMeta /\ waitSyncMeta' = waitSyncMeta]_vars

\* one chunk of a planned two-chunk table is cleared and counted, while
\* another worker is between its two statements on the other chunk
C2_Witness ==
  /\ oraChunkCount["T1"] = 2
  /\ Cardinality(FullRowsOf("S1", "T1")) = 1
  /\ \E m \in waitSyncMeta : m.table = "T1" /\ m.scn > -1 /\ m.split = 1
  /\ \E w \in 1..NumWorkers :
       /\ workers[w].pc = "deleted"
       /\ workers[w].del = FullRowsOf("S1", "T1")

\* the WaitSyncMeta rows chunk planning has updated
PlannedRows == {m \in waitSyncMeta : m.scn > -1}

\* the number of rows chunk planning leaves for a table
PlannedChunks(upperTable) ==
  IF oraStatRows[upperTable] = 0 \/ oraChunkCount[upperTable] = 0 THEN 1
  ELSE oraChunkCount[upperTable]

\* C3: with workers that each clear a different chunk of a planned table, in
\* every interleaving full_split_times equals the number of FullSyncMeta rows
\* left, which is K minus the chunks cleared, and is 0 exactly when none is left.
C3_NoLostDecrement ==
  \A m \in PlannedRows :
    LET left == FullRowsOf(m.schema, m.table)
    IN /\ m.split = Cardinality(left)
       /\ m.split \in 0..PlannedChunks(m.table)
       /\ m.split = 0 <=> left = {}

\* both chunks of a two-chunk table have been cleared, the counter is at 0
C3_Witness ==
  /\ oraChunkCount["T1"] = 2 /\ oraStatRows["T1"] # 0
  /\ FullRowsOf("S1", "T1") = {}
  /\ \E m \in PlannedRows : m.table = "T1" /\ m.split = 0
  /\ WorkersIdle

\* the positions of tableMetas whose FullSyncMeta row count differs from the
\* full_split_times of the entry
Mismatches(schemaName, tableMetas) ==
  {i \in 1..Len(tableMetas) :
     Cardinality({f \in fullSyncMeta : f.schema = ToUpper(schemaName)
                                       /\ f.table = tableMetas[i].table})
       # tableMetas[i].split}

\* the resume check has answered exactly the mismatching tables in input order
JudgedExactly ==
  judge.pc = "done" =>
    LET idx == Mismatches(judge.schemaName, judge.tableMetas)
    IN /\ Len(judge.panic) = Cardinality(idx)
       /\ \A k \in 1..Len(judge.panic) :
            \E i \in idx : /\ Cardinality({j \in idx : j < i}) = k - 1
                           /\ judge.panic[k] = judge.tableMetas[i].table

\* C8: JudgingCheckpointResume returns exactly the tables of its input whose
\* FullSyncMeta row count differs from their full_split_times, in input order,
\* and changes no metadata row.
C8_JudgeFlagsExactlyMismatches ==
  [][/\ JudgedExactly'
     /\ judge' # judge => waitSyncMeta' = waitSyncMeta /\ fullSyncMeta' = fullSyncMeta]_vars

\* a call on two tables of which only the second is inconsistent
C8_Witness ==
  /\ judge.pc = "done"
  /\ Len(judge.tableMetas) = 2
  /\ judge.tableMetas[1].table # judge.tableMetas[2].table
  /\ judge.tableMetas[1].split > 0
  /\ judge.panic = <<judge.tableMetas[2].table>>

\* C9: a table whose FullSyncMeta rows are an incomplete chunk set is never
\* taken as resumable: until the planner has updated the table's WaitSyncMeta
\* row GetPartSyncTableMetaRecord does not return it, and a returned table
\* with an incomplete chunk set is flagged by JudgingCheckpointResume.
C9_IncompleteNeverResumable ==
  /\ run.pc \in InFlight \ {"closeTask"} =>
       \A m \in GetPartSyncTableMetaRecord(run.schemaName, run.syncMode) :
         WaitKey(m) # RunKey
  /\ \A s \in SchemaNames, mode \in SyncModes :
       \A m \in GetPartSyncTableMetaRecord(s, mode) :
         ~CompleteChunkSet(m.table) => JudgingCheckpointResume(s, <<m>>) = <<m.table>>

\* planning died with some of the chunk rows written
C9_Witness ==
  /\ run.pc = "crashed"
  /\ oraStatRows[RunTable] # 0
  /\ FullRowsOf(RunKey[1], RunKey[2]) # {}
  /\ ~CompleteChunkSet(RunTable)

\* C10: after InitWaitSyncTableMetaRecord succeeds every listed table has a
\* (-1,-1) WaitSyncMeta row under upper-cased names; a (-1,-1) row is returned
\* by GetWaitSyncTableMetaRecord and by neither GetPartSyncTableMetaRecord nor
\* GetFinishFullSyncMetaRecord, and stays so until chunk planning updates it.
C10_InitWaitRowsAreWaiting ==
  [][/\ (waitSyncMeta' # waitSyncMeta /\ run.pc = "idle") =>
        \A s \in SchemaNames, ts \in TableLists, mode \in SyncModes :
          (/\ InitWaitLoop(waitSyncMeta, s, ts, mode, 0).ok
           /\ waitSyncMeta' = InitWaitLoop(waitSyncMeta, s, ts, mode, 0).rows)
          => \A i \in 1..Len(ts) :
               LET upperTable == IF ts[i] = "t1" THEN "T1"
                                 ELSE IF ts[i] = "t2" THEN "T2" ELSE ts[i]
               IN /\ \E m \in waitSyncMeta' :
                       /\ m.schema = "S1" /\ m.table = upperTable /\ m.mode = mode
                       /\ m.scn = -1 /\ m.split = -1
                  /\ \A m \in waitSyncMeta' : m.mode = mode => m.table # "t1" /\ m.table # "t2"
                  /\ upperTable \in TableInfo(GetWaitSyncTableMetaRecord(s, mode))'
                  /\ upperTable \notin TableInfo(GetPartSyncTableMetaRecord(s, mode))'
                  /\ upperTable \notin TableInfo(GetFinishFullSyncMetaRecord(s, mode))'
     /\ \A m \in waitSyncMeta :
          (m.scn = -1 /\ m.split = -1) =>
            /\ \E s \in SchemaNames : m \in GetWaitSyncTableMetaRecord(s, m.mode)
            /\ \A s \in SchemaNames :
                 /\ m \notin GetPartSyncTableMetaRecord(s, m.mode)
                 /\ m \notin GetFinishFullSyncMetaRecord(s, m.mode)
            /\ \/ m \in waitSyncMeta'
               \/ run.pc \in {"zeroUpdate", "update"} /\ WaitKey(m) = RunKey
               \/ run.pc = "idle" /\ waitSyncMeta' = waitSyncMeta \ {m}]_vars

\* two tables, one given in lower case, wait for planning in the same mode
C10_Witness ==
  \E m1, m2 \in waitSyncMeta :
    /\ m1.table = "T1" /\ m2.table = "T2" /\ m1.mode = m2.mode
    /\ m1.scn = -1 /\ m1.split = -1 /\ m2.scn = -1 /\ m2.split = -1
    /\ TableInfo(GetWaitSyncTableMetaRecord("s1", m1.mode)) = {"T1", "T2"}

Unsupported ==
  Range(gen.partitionTables) \cup Range(gen.temporaryTables) \cup Range(gen.clusteredTables)

\* C13: no table returned in the partitioned, temporary or clustered list has
\* a Table Plan among the returned ones.
C13_PlansOnlyForOrdinaryTables ==
  gen.pc = "returned" =>
    \A i \in 1..Len(gen.result) : gen.result[i].SourceTableName \notin Unsupported

\* C14: with N >= 1 workers and any table list, a call that returns has
\* collected exactly one Table Plan per name fed to the pool, and the
\* collector had appended all of them when the list was read for the return.
C14_OnePlanPerTable ==
  gen.pc = "returned" =>
    /\ Len(gen.result) = Len(gen.exporterTableSlice)
    /\ \A i \in 1..Len(gen.exporterTableSlice) :
         Cardinality({j \in 1..Len(gen.result) :
                        gen.result[j].SourceTableName =
                          (IF gen.exporterTableSlice[i] = "emp" THEN "EMP"
                           ELSE gen.exporterTableSlice[i])}) = 1
    /\ gen.result = gen.tables
    /\ gen.collector = "exit" /\ gen.chT = <<>> /\ gen.chS = <<>>

\* two workers have built the plans of three tables, more than the channels hold
C14_Witness ==
  /\ gen.pc = "returned"
  /\ gen.threads = 2
  /\ Len(gen.exporterTableSlice) = 3 /\ Len(gen.exporterTableSlice) > BufferSize
  /\ gen.exporterTableSlice[1] = "emp"
  /\ Len(gen.result) = 3

\* the names the producer has put into chS so far, wherever they are now
Enqueued ==
  Len(gen.chS) + Cardinality({w \in 1..MaxThreads : gen.workers[w].pc = "send"})
    + Len(gen.chT) + Len(gen.tables)

\* every goroutine the call started has ended
AllGoroutinesEnded ==
  /\ gen.chSClosed
  /\ \A w \in 1..MaxThreads : gen.workers[w].pc \in {"none", "exit"}
  /\ gen.collector = "exit"

\* C15: with N >= 1 workers the pool ends under fair scheduling: chS is closed
\* only after every name is enqueued, chT is closed only after every worker
\* has left (no worker sends on the closed channel), and the call returns
\* after the collector has signalled, with no goroutine left behind.
C15_PoolTerminates ==
  /\ [](\A w \in 1..MaxThreads : gen.workers[w].pc # "panic")
  /\ [](gen.chSClosed => Enqueued = Len(gen.exporterTableSlice))
  /\ [](gen.chTClosed =>
          /\ gen.spawned = gen.threads
          /\ \A w \in 1..gen.threads : gen.workers[w].pc = "exit")
  /\ [](gen.pc = "returned" => AllGoroutinesEnded)
  /\ [](gen.pc = "spawn" => <>(gen.pc = "returned"))

\* a call with one worker and three tables has returned
C15_Witness ==
  /\ gen.pc = "returned"
  /\ gen.threads = 1
  /\ Len(gen.exporterTableSlice) = 3
  /\ AllGoroutinesEnded

\* the Oracle collation GenCreateTableSQL is to map for a Table
ChosenCollation(t) ==
  IF t.OracleCollation
  THEN IF t.SourceTableCollation # "" THEN t.SourceTableCollation
       ELSE t.SourceSchemaCollation
  ELSE t.SourceDBNLSComp

\* C16: the collation of the statement is the mapped table collation, else
\* the mapped schema collation when the source supports collation, and the
\* mapped NLS_COMP otherwise; a collation that the map lacks (both table and
\* schema collation empty included) fails the call, so a returned statement
\* never has an empty COLLATE.
C16_CollationResolvedOrFails ==
  ddl.pc = "returned" =>
    LET chosen == ChosenCollation(ddl.t)
    IN /\ (chosen \notin {"BINARY", "BINARY_CI"}) => ddl.ret.err # ""
       /\ ddl.ret.err = "" =>
            /\ ddl.ret.createTableSQL.collate # ""
            /\ chosen = "BINARY" => ddl.ret.createTableSQL.collate = "utf8mb4_bin"
            /\ chosen = "BINARY_CI" => ddl.ret.createTableSQL.collate = "utf8mb4_general_ci"

\* the primary key of the call is one column of an integer target type
SingleIntegerPK ==
  /\ Len(ddl.catalog.primaryKeyMap) = 1
  /\ ddl.catalog.primaryKeyMap[1] = <<"ID">>
  /\ ddl.catalog.idColumnType = "BIGINT"

\* when the statement is to carry the table option
OptionExpected ==
  /\ ddl.t.TargetDBType = "TIDB"
  /\ ddl.t.TargetTableOption # ""
  /\ \/ ddl.catalog.clusteredIdxVal \in {"OFF", "off"}
     \/ /\ ddl.catalog.clusteredIdxVal \notin {"ON", "OFF", "off"}
        /\ ddl.catalog.pkVal # "missing"
        /\ ~(ddl.catalog.pkVal = "false" /\ SingleIntegerPK)

\* C17: a returned statement carries the upper-cased target-table-option
\* exactly when the target is TiDB, the option is not empty and either
\* tidb_enable_clustered_index is OFF, or it is neither ON nor OFF,
\* alter-primary-key is present and not (false with a single integer primary
\* key column); otherwise the statement has no option.
C17_TableOptionExactlyWhen ==
  (ddl.pc = "returned" /\ ddl.ret.err = "") =>
    /\ OptionExpected => ddl.ret.createTableSQL.option = "SHARD_ROW_ID_BITS = 2"
    /\ ~OptionExpected => ddl.ret.createTableSQL.option = ""

\* TiDB with INT_ONLY clustered index and alter-primary-key false: the table
\* with a varchar primary key column got its option
C17_Witness ==
  /\ ddl.pc = "returned" /\ ddl.ret.err = ""
  /\ ddl.t.TargetDBType = "TIDB" /\ ddl.t.TargetTableOption # ""
  /\ ddl.catalog.clusteredIdxVal = "INT_ONLY" /\ ddl.catalog.pkVal = "false"
  /\ ddl.catalog.primaryKeyMap = <<<<"ID">>>> /\ ddl.catalog.idColumnType = "VARCHAR(10)"
  /\ ddl.ret.createTableSQL.option = "SHARD_ROW_ID_BITS = 2"

\* C18: a NUMBER column of scale 0 that no override rule matches gets, by its
\* precision p: DECIMAL(65,30) for 0, TINYINT for 1..2, SMALLINT for 3..4,
\* INT for 5..8, BIGINT for 9..18, DECIMAL(p) for 19..38 and DECIMAL(p,4)
\* for any other p.
C18_NumberScaleZeroByPrecision ==
  (col.pc = "returned" /\ col.dataScale = 0) =>
    LET p == col.dataPrecision
        type == col.modifyColumnType
    IN /\ p = 0 => type = <<"DECIMAL", 65, 30>>
       /\ p \in {1, 2} => type = <<"TINYINT">>
       /\ p \in {3, 4} => type = <<"SMALLINT">>
       /\ p \in 5..8 => type = <<"INT">>
       /\ p \in 9..18 => type = <<"BIGINT">>
       /\ p \in 19..38 => type = <<"DECIMAL", p>>
       /\ p > 38 => type = <<"DECIMAL", p, 4>>

\* NUMBER(39) under rules for other columns and types has become DECIMAL(39,4)
C18_Witness ==
  /\ col.pc = "returned" /\ col.dataScale = 0 /\ col.dataPrecision = 39
  /\ col.columnDataTypeMapSlice # <<>> /\ col.tableDataTypeMapSlice # <<>>
  /\ col.modifyColumnType = <<"DECIMAL", 39, 4>>

\* the targets of the rules of a slice that are for the column PRICE
\* NUMBER(10) and name a target type
ColumnTargets ==
  {r.TargetColumnType : r \in {x \in Range(col.columnDataTypeMapSlice) :
      /\ x.SourceColumnName \in {"price", "PRICE"}
      /\ x.SourceColumnType \in {<<"number", 10>>, <<"NUMBER", 10>>}
      /\ x.TargetColumnType # <<>>}}

TableTargets ==
  {r.TargetColumnType : r \in {x \in Range(col.tableDataTypeMapSlice) :
      /\ x.SourceColumnType \in {<<"number", 10>>, <<"NUMBER", 10>>}
      /\ x.TargetColumnType # <<>>}}

SchemaTargets ==
  {r.TargetColumnType : r \in {x \in Range(col.schemaDataTypeMapSlice) :
      /\ x.SourceColumnType \in {<<"number", 10>>, <<"NUMBER", 10>>}
      /\ x.TargetColumnType # <<>>}}

\* type texts that are equal up to letter case
SameType(a, b) == ToUpperType(a) = ToUpperType(b)

\* C19: with at most one matching rule per scope, the type is the column
\* rule's target if that differs from the built-in type, else the table
\* rule's, else the schema rule's, else the built-in type (all up to letter
\* case); rules without a target and rules for other columns or types change
\* nothing.
C19_ColumnThenTableThenSchema ==
  (/\ col.pc = "returned"
   /\ Cardinality(ColumnTargets) <= 1
   /\ Cardinality(TableTargets) <= 1
   /\ Cardinality(SchemaTargets) <= 1) =>
    LET builtin == col.buildInColumnType
        fromColumn == ColumnTargets \ {builtin}
        fromTable == TableTargets \ {builtin}
        fromSchema == SchemaTargets \ {builtin}
        type == col.modifyColumnType
    IN /\ builtin = <<"BIGINT">>
       /\ fromColumn # {} => \A t \in fromColumn : SameType(type, t)
       /\ (fromColumn = {} /\ fromTable # {}) => \A t \in fromTable : SameType(type, t)
       /\ (fromColumn = {} /\ fromTable = {} /\ fromSchema # {}) =>
            \A t \in fromSchema : SameType(type, t)
       /\ (fromColumn = {} /\ fromTable = {} /\ fromSchema = {}) => SameType(type, builtin)

\* a column rule without target, a table rule and a schema rule: the table
\* rule has decided
C19_Witness ==
  /\ col.pc = "returned"
  /\ \E r \in Range(col.columnDataTypeMapSlice) :
       r.SourceColumnName = "price" /\ r.TargetColumnType = <<>>
  /\ ColumnTargets = {}
  /\ TableTargets = {<<"decimal", 10>>}
  /\ SchemaTargets = {<<"int">>}
  /\ col.modifyColumnType = <<"DECIMAL", 10>>

\* C20: the type changeOracleTableColumnType returns is in upper case for
\* every combination of rule slices, an empty column-rule slice with a
\* lower-case table or schema target included.
C20_FinalTypeUpperCased ==
  col.pc = "returned" =>
    (col.modifyColumnType = <<>> \/ col.modifyColumnType[1] \in {"BIGINT", "DECIMAL", "INT", "VARCHAR"})

\* the call of scenario S1: PRICE NUMBER(10,2), not nullable, default 0,
\* comment "retail" with its double quotes, no rule
PriceColumnCall ==
  /\ col.pc = "returned"
  /\ col.columnName = "PRICE" /\ col.dataPrecision = 10 /\ col.dataScale = 2
  /\ col.dataNullable = "N" /\ col.dataDefault = "0"
  /\ col.comments = <<"\"", "retail", "\"">>
  /\ col.columnDataTypeMapSlice = <<>> /\ col.defaultValueMapSlice = <<>>

\* C21 as stated: the fragment is `PRICE` DECIMAL(10,2) NOT NULL DEFAULT 0
\* COMMENT '"retail"', the comment with its double quotes inside single quotes.
C21_PriceFragmentAsStated ==
  PriceColumnCall =>
    col.columnMeta = [name |-> "PRICE", type |-> <<"DECIMAL", 10, 2>>,
                      nullable |-> "NOT NULL", default |-> "0",
                      comment |-> <<"'", "\"", "retail", "\"", "'">>]

\* C21: for PRICE NUMBER(10,2), not nullable, default 0, comment "retail"
\* with its double quotes and no rule, the fragment is `PRICE` DECIMAL(10,2)
\* NOT NULL DEFAULT 0 COMMENT "'retail'": the double quotes of the comment
\* have become single quotes and the literal is wrapped in double quotes.
C21_PriceFragment ==
  PriceColumnCall =>
    col.columnMeta = [name |-> "PRICE", type |-> <<"DECIMAL", 10, 2>>,
                      nullable |-> "NOT NULL", default |-> "0",
                      comment |-> <<"\"", "'", "retail", "'", "\"">>]

\* the call of scenario S1 has returned its fragment
C21_Witness ==
  /\ PriceColumnCall
  /\ col.columnMeta.type = <<"DECIMAL", 10, 2>>
  /\ col.columnMeta.comment # <<>>

\* C22: reverserOracleTablePKToMySQL yields at most one PRIMARY KEY fragment:
\* none for zero primary-key rows, exactly one listing the row's columns in
\* order for one row, and for two or more rows an error with no fragment,
\* after which GenCreateTableSQL returns that error and no CREATE TABLE.
C22_AtMostOnePrimaryKey ==
  ddl.pc = "returned" /\ ddl.pk # PKNotCalled =>
    LET rows == ddl.catalog.primaryKeyMap
    IN /\ Len(ddl.pk.keysMeta) <= 1
       /\ Len(rows) = 0 => ddl.pk.err = "" /\ ddl.pk.keysMeta = <<>>
       /\ Len(rows) = 1 =>
            /\ ddl.pk.err = ""
            /\ ddl.pk.keysMeta = << <<"PRIMARY KEY", rows[1]>> >>
            /\ ddl.ret.err = "" => ddl.ret.createTableSQL.keys = ddl.pk.keysMeta
       /\ Len(rows) >= 2 =>
            /\ ddl.pk.err # "" /\ ddl.pk.keysMeta = <<>>
            /\ ddl.ret.err = ddl.pk.err
            /\ ddl.ret.createTableSQL = NoSQL

\* a table with two primary-key rows has been refused
C22_Witness ==
  /\ ddl.pc = "returned"
  /\ Len(ddl.catalog.primaryKeyMap) = 2
  /\ ddl.pk.err = "primary key exist multiple values"
  /\ ddl.ret.createTableSQL = NoSQL

\* the clauses of a condition that are not purely col IS NOT NULL, in order
RemainingClauses(condition) ==
  SelectSeq(condition.clauses, LAMBDA c : c \notin NotNullClauses)

RECURSIVE Concat(_)
Concat(seqs) == IF seqs = <<>> THEN <<>> ELSE Head(seqs) \o Concat(Tail(seqs))

\* the words are exactly the given clauses with one connector between each
\* two and none before the first or after the last
ClausesWithoutDanglingConnector(words, clauses) ==
  /\ SelectSeq(words, LAMBDA w : ~IsConnector(w)) = Concat(clauses)
  /\ Len(words) = Len(Concat(clauses)) + Len(clauses) - 1
  /\ ~IsConnector(words[1]) /\ ~IsConnector(words[Len(words)])
  /\ \A i \in 1..(Len(words) - 1) : ~(IsConnector(words[i]) /\ IsConnector(words[i + 1]))

RECURSIVE ExpectedConstraints(_)
\* per condition with a remaining clause, those clauses
ExpectedConstraints(conditions) ==
  IF conditions = <<>> THEN <<>>
  ELSE (IF RemainingClauses(Head(conditions)) = <<>> THEN <<>>
        ELSE <<RemainingClauses(Head(conditions))>>) \o ExpectedConstraints(Tail(conditions))

\* C23: reverserOracleTableCKToMySQL completes without failure and emits, per
\* check condition, a constraint that holds exactly the clauses that are not
\* purely col IS NOT NULL, without a dangling connector, and no constraint
\* when no clause remains.
C23_NotNullClausesStripped ==
  ck.pc = "returned" =>
    /\ ~ck.ret.panic
    /\ LET expected == ExpectedConstraints(ck.conditions)
       IN /\ Len(ck.ret.keysMeta) = Len(expected)
          /\ \A i \in 1..Len(expected) :
               ClausesWithoutDanglingConnector(ck.ret.keysMeta[i].check, expected[i])

\* C24: in every state reached by chunk planning and calls of
\* ModifyWaitAndFullSyncTableMetaRecord on a planned table, whatever the
\* predicate of the call (repeated, matching no row, differing in letter
\* case), the number of FullSyncMeta rows of the table equals its
\* full_split_times, and full_split_times is never below 0.
C24_CounterIsRowCount ==
  \A m \in waitSyncMeta :
    m.scn > -1 =>
      /\ m.split >= 0
      /\ Cardinality({f \in fullSyncMeta : f.schema = m.schema /\ f.table = m.table}) = m.split

\* the lifecycle queries that return the row when asked for its schema and mode
QueriesReturning(m, schemaName) ==
  {q \in {"wait", "part", "finish"} :
     \/ q = "wait" /\ m \in GetWaitSyncTableMetaRecord(schemaName, m.mode)
     \/ q = "part" /\ m \in GetPartSyncTableMetaRecord(schemaName, m.mode)
     \/ q = "finish" /\ m \in GetFinishFullSyncMetaRecord(schemaName, m.mode)}

C26_ModifyFrame ==
  [][\A w \in 1..NumWorkers :
       workers'[w] # workers[w] =>
         LET key == <<workers[w].schema, workers[w].table, workers[w].mode>>
             removed == fullSyncMeta \ fullSyncMeta'
         IN /\ incrementSyncMeta' = incrementSyncMeta
            /\ {m \in waitSyncMeta' : WaitKey(m) # key} = {m \in waitSyncMeta : WaitKey(m) # key}
            /\ \A m \in waitSyncMeta : WaitKey(m) = key =>
                 \E n \in waitSyncMeta' :
                   /\ WaitKey(n) = key /\ n.scn = m.scn /\ n.part = m.part
                   /\ \A o \in waitSyncMeta' : WaitKey(o) = key => o = n
            /\ fullSyncMeta' \subseteq fullSyncMeta
            /\ Cardinality(removed) <= 1
            /\ \A f \in removed : f.schema = workers[w].schema /\ f.table = workers[w].table
     ]_vars

\* one of the two chunks of T1 has been cleared in the ALL mode while T1 is
\* also registered in the FULL mode, T2 has its rows and an increment row exists
C26_Witness ==
  /\ \E m \in waitSyncMeta : m.table = "T1" /\ m.mode = "ALL" /\ m.scn > -1 /\ m.split = 1
  /\ Cardinality(FullRowsOf("S1", "T1")) = 1
  /\ \E m \in waitSyncMeta : m.table = "T1" /\ m.mode = "FULL"
  /\ \E m \in waitSyncMeta : m.table = "T2" /\ m.mode = "ALL"
  /\ incrementSyncMeta # {}
  /\ WorkersIdle

\* C27: for every configured thread count, 0 included, a call that returns
\* without error returns as many Table Plans as names were fanned out, and
\* every goroutine it started comes to its end.
C27_AnyThreadCount ==
  /\ [](gen.pc = "returned" => Len(gen.result) = Len(gen.exporterTableSlice))
  /\ [](gen.pc = "returned" => <>AllGoroutinesEnded)

\* C28: for every NUMBER column of precision >= 0 and any integer scale,
\* negative scales such as NUMBER(5,-2) included, the column rule gives a
\* fragment whose target type is not empty.
C28_NumberTypeNeverEmpty ==
  col.pc = "returned" /\ ToUpper(col.dataType) = "NUMBER" /\ col.dataPrecision >= 0 =>
    /\ col.modifyColumnType # <<>>
    /\ col.columnMeta.type # <<>>

\* the table-option part decides by alter-primary-key: TiDB, an option, and
\* tidb_enable_clustered_index neither ON nor OFF with alter-primary-key read
AlterPKDecides ==
  /\ ddl.pc = "returned"
  /\ ddl.ret.err \notin {"index", "column", "tidb", "primary key exist multiple values"}
  /\ TableCollation(ddl.t).err = ""
  /\ ddl.t.TargetDBType = "TIDB" /\ ddl.t.TargetTableOption # ""
  /\ ToUpper(ddl.catalog.clusteredIdxVal) \notin {"ON", "OFF"}
  /\ ddl.catalog.pkVal # "missing"

\* C29: GenCreateTableSQL never returns the error `table-option not support`,
\* whatever alter-primary-key is, however many primary-key columns the table
\* has (0, 1, more) and whatever the single-primary-key-is-integer flag comes
\* out as; a table without primary key under alter-primary-key = false gets
\* the table option appended to its statement.
C29_NotSupportUnreachable ==
  /\ ddl.pc = "returned" => ddl.ret.err # "table-option not support"
  /\ AlterPKDecides /\ ddl.catalog.pkVal = "false" /\ ddl.catalog.primaryKeyMap = <<>> =>
       /\ ddl.ret.err = ""
       /\ ddl.ret.createTableSQL.option = ToUpper(ddl.t.TargetTableOption)

\* a table without primary key and with an integer column, under
\* alter-primary-key = false, has its statement with the option
C29_Witness ==
  /\ AlterPKDecides
  /\ ddl.catalog.pkVal = "false"
  /\ ddl.catalog.primaryKeyMap = <<>>
  /\ ddl.catalog.idColumnType = "BIGINT"
  /\ ddl.ret.err = ""
  /\ ddl.ret.createTableSQL.option = "SHARD_ROW_ID_BITS = 2"

\* C30: when InitWaitAndFullSyncMetaRecord has returned an error for a table,
\* at whichever step, the WaitSyncMeta row of the table is still at
\* (scn, split-times) = (-1, -1): a failed run never leaves the table planned.
C30_ErrorLeavesSentinel ==
  run.pc = "failed" =>
    \A m \in waitSyncMeta :
      WaitKey(m) = <<ToUpper(run.schemaName), ToUpper(run.tableName), run.syncMode>> =>
        m.scn = -1 /\ m.split = -1

====
